---- MODULE Spec2Model ----
(***************************************************************************)
(* A model of ParrotNLP's Vietnamese tokenizer and word segmenter          *)
(* (src/src/word_tokenize/word_tokenize.rs).                               *)
(*                                                                         *)
(* A text is a sequence of one-character strings.  Positions are 1-based;  *)
(* a span <<s, e>> covers text[s] .. text[e-1].  A character outside ASCII  *)
(* is written by its code point, "U+00C0".                                 *)
(***************************************************************************)
EXTENDS Integers, Sequences, FiniteSets, TLC

(***************************************************************************)
(* Characters and character classes                                        *)
(***************************************************************************)

\* The body of upper_class() between its brackets, character by character.
upper_clean ==
  <<
    "A", "-", "Z", "U+00C0", "U+00C1", "U+1EA2", "U+00C3", "U+1EA0", "U+0102", "U+1EB0", "U+1EAE", "U+1EB2", "U+1EB4", "U+1EB6",
    "U+00C2", "U+1EA6", "U+1EA4", "U+1EA8", "U+1EAA", "U+1EAC", "U+0110", "U+00C8", "U+00C9", "U+1EBA", "U+1EBC", "U+1EB8", "U+00CA", "U+1EC0",
    "U+1EBE", "U+1EC2", "U+1EC4", "U+1EC6", "U+00CC", "U+00CD", "U+1EC8", "U+0128", "U+1ECA", "U+00D2", "U+00D3", "U+1ECE", "U+00D5", "U+1ECC",
    "U+00D4", "U+1ED2", "U+1ED0", "U+1ED4", "U+1ED6", "U+1ED8", "U+01A0", "U+1EDC", "U+1EDA", "U+1EDE", "U+1EE0", "U+1EE2", "U+00D9", "U+00DA",
    "U+1EE6", "U+0168", "U+1EE4", "U+01AF", "U+1EEA", "U+1EE8", "U+1EEC", "U+1EEE", "U+1EF0", "U+1EF2", "U+00DD", "U+1EF6", "U+1EF8", "U+1EF4" >>

\* The body of word_class() between its brackets: upper_clean followed by its
\* lower-case counterpart.
w_clean ==
  upper_clean \o
  <<
    "a", "-", "z", "U+00E0", "U+00E1", "U+1EA3", "U+00E3", "U+1EA1", "U+0103", "U+1EB1", "U+1EAF", "U+1EB3", "U+1EB5", "U+1EB7",
    "U+00E2", "U+1EA7", "U+1EA5", "U+1EA9", "U+1EAB", "U+1EAD", "U+0111", "U+00E8", "U+00E9", "U+1EBB", "U+1EBD", "U+1EB9", "U+00EA", "U+1EC1",
    "U+1EBF", "U+1EC3", "U+1EC5", "U+1EC7", "U+00EC", "U+00ED", "U+1EC9", "U+0129", "U+1ECB", "U+00F2", "U+00F3", "U+1ECF", "U+00F5", "U+1ECD",
    "U+00F4", "U+1ED3", "U+1ED1", "U+1ED5", "U+1ED7", "U+1ED9", "U+01A1", "U+1EDD", "U+1EDB", "U+1EDF", "U+1EE1", "U+1EE3", "U+00F9", "U+00FA",
    "U+1EE7", "U+0169", "U+1EE5", "U+01B0", "U+1EEB", "U+1EE9", "U+1EED", "U+1EEF", "U+1EF1", "U+1EF3", "U+00FD", "U+1EF7", "U+1EF9", "U+1EF5" >>

AsciiUpper == {"A","B","C","D","E","F","G","H","I","J","K","L","M",
               "N","O","P","Q","R","S","T","U","V","W","X","Y","Z"}

AsciiLower == {"a","b","c","d","e","f","g","h","i","j","k","l","m",
               "n","o","p","q","r","s","t","u","v","w","x","y","z"}

\* \d
Digit == {"0","1","2","3","4","5","6","7","8","9"}

\* \s
Space == {" ", "\t", "\n", "\r", "\f"}

\* \w (Unicode-aware): letters, digits and the connector "_".  The letters the
\* model knows are the ASCII ones and the Vietnamese inventory of w_clean.
WordChar ==
  AsciiUpper \cup AsciiLower \cup Digit \cup {"_"}
    \cup ({w_clean[j] : j \in 1..Len(w_clean)} \ {"-"})

(***************************************************************************)
(* Regular expressions, as the regex crate matches them.                   *)
(*                                                                         *)
(* A pattern is a tree; Ends(r, text, i) is the sequence of positions at   *)
(* which a match of r starting at position i can end, in the order of      *)
(* preference of a leftmost-first (backtracking) matcher: alternatives in  *)
(* the order written, greedy repetitions longest first, lazy ones shortest *)
(* first.  The match the crate reports at i is the head of the sequence.   *)
(***************************************************************************)

Unbounded == 0 - 1

In(S) == [k |-> "in", s |-> S]
NotIn(S) == [k |-> "notin", s |-> S]
Lit(c) == In({c})
Cat(rs) == [k |-> "cat", rs |-> rs]
Alt(rs) == [k |-> "alt", rs |-> rs]
Rep(r, lo, hi) == [k |-> "rep", r |-> r, lo |-> lo, hi |-> hi, greedy |-> TRUE]
LazyRep(r, lo, hi) == [k |-> "rep", r |-> r, lo |-> lo, hi |-> hi, greedy |-> FALSE]
Plus(r) == Rep(r, 1, Unbounded)
Star(r) == Rep(r, 0, Unbounded)
Opt(r) == Rep(r, 0, 1)
\* a literal string
Str(cs) == [k |-> "str", cs |-> cs]
\* a literal string whose last character carries a "+"
StrPlus(cs) == Cat(<<Str(SubSeq(cs, 1, Len(cs) - 1)), Plus(Lit(cs[Len(cs)]))>>)
\* \b
WordB == [k |-> "wordb"]
\* \> (end of word)
WordEnd == [k |-> "wordend"]
\* $
EndText == [k |-> "end"]
\* .
AnyChar == NotIn({"\n"})

IsWordAt(text, i) == i >= 1 /\ i <= Len(text) /\ text[i] \in WordChar

\* the sequence a extended by those elements of b it does not hold yet
\* (neither a nor b holds an element twice)
RECURSIVE Merge(_, _)
Merge(a, b) ==
  IF b = <<>> THEN a
  ELSE IF a = <<>> THEN b
  ELSE Merge(IF \E j \in 1..Len(a) : a[j] = Head(b) THEN a ELSE Append(a, Head(b)), Tail(b))

RECURSIVE Ends(_, _, _)
RECURSIVE EndsFrom(_, _, _)
RECURSIVE CatEnds(_, _, _, _)
RECURSIVE AltEnds(_, _, _, _)
RECURSIVE RepEnds(_, _, _, _, _)

\* the ends of r started at each of the positions of starts, in order
EndsFrom(r, text, starts) ==
  IF starts = <<>> THEN <<>>
  ELSE IF Len(starts) = 1 THEN Ends(r, text, starts[1])
  ELSE Merge(Ends(r, text, Head(starts)), EndsFrom(r, text, Tail(starts)))

CatEnds(rs, j, text, starts) ==
  IF j > Len(rs) \/ starts = <<>> THEN starts
  ELSE CatEnds(rs, j + 1, text, EndsFrom(rs[j], text, starts))

AltEnds(rs, j, text, i) ==
  IF j > Len(rs) THEN <<>>
  ELSE Merge(Ends(rs[j], text, i), AltEnds(rs, j + 1, text, i))

RepEnds(r, lo, hi, text, i) ==
  IF hi = 0 THEN <<i>>
  ELSE LET once == SelectSeq(Ends(r.r, text, i), LAMBDA e : e > i \/ lo > 0)
           lo1 == IF lo > 0 THEN lo - 1 ELSE 0
           hi1 == IF hi = Unbounded THEN hi ELSE hi - 1
           more == IF once = <<>> THEN <<>>
                   ELSE CatEnds(<<[r EXCEPT !.lo = lo1, !.hi = hi1]>>, 1, text, once)
       IN IF lo > 0 THEN more
          ELSE IF r.greedy THEN Merge(more, <<i>>)
          ELSE Merge(<<i>>, more)

Ends(r, text, i) ==
  CASE r.k = "in" -> IF i <= Len(text) /\ text[i] \in r.s THEN <<i + 1>> ELSE <<>>
    [] r.k = "notin" -> IF i <= Len(text) /\ text[i] \notin r.s THEN <<i + 1>> ELSE <<>>
    [] r.k = "str" -> IF /\ i + Len(r.cs) - 1 <= Len(text)
                         /\ \A j \in 1..Len(r.cs) : text[i + j - 1] = r.cs[j]
                      THEN <<i + Len(r.cs)>> ELSE <<>>
    [] r.k = "wordb" -> IF IsWordAt(text, i - 1) # IsWordAt(text, i) THEN <<i>> ELSE <<>>
    [] r.k = "wordend" -> IF IsWordAt(text, i - 1) /\ ~IsWordAt(text, i) THEN <<i>> ELSE <<>>
    [] r.k = "end" -> IF i = Len(text) + 1 THEN <<i>> ELSE <<>>
    [] r.k = "cat" -> CatEnds(r.rs, 1, text, <<i>>)
    [] r.k = "alt" -> AltEnds(r.rs, 1, text, i)
    [] r.k = "rep" -> RepEnds(r, r.lo, r.hi, text, i)

(***************************************************************************)
(* The sub-patterns of build_regex_patterns, one per token category        *)
(***************************************************************************)

D == In(Digit)
W == In(WordChar)
AZ == In(AsciiUpper)
AZD == In(AsciiUpper \cup {"U+0110"})
Dot == Lit(".")
Dash == Lit("-")

specials_pattern ==
  Alt(<< Cat(<<Lit("="), WordEnd>>),                       \* =\>
         Str(<<"=", "=", ">">>),                           \* ==>
         Str(<<"-", ">">>),                                \* ->
         Rep(Dot, 2, Unbounded),                           \* \.{2,}
         Rep(Dash, 2, Unbounded),                          \* -{2,}
         Str(<<">", ">">>),                                \* >>
         Cat(<<Plus(D), Lit("x"), Plus(D)>>),              \* \d+x\d+
         Str(<<"v", ".", "v", ".", ".", ".">>),            \* v\.v\.\.\.
         Str(<<"v", ".", "v", ".">>),                      \* v\.v\.
         Str(<<"v", ".", "v">>),                           \* v\.v
         Cat(<<Lit("U+00B0"), In({"C", "F"})>>) >>)             \* U+00B0[CF]

\* upper_clean and w_clean have lost their brackets, so they stand in the
\* pattern as literal text, the "+" binding to their last character only.
abbrev_pattern1 ==
  Cat(<< StrPlus(upper_clean),
         Plus(Cat(<<Dot, StrPlus(w_clean)>>)),
         Opt(Dot) >>)

abbrev_pattern2 ==
  Cat(<< StrPlus(w_clean), Lit("'"), StrPlus(w_clean) >>)

abbreviations_pattern ==
  Alt(<< Cat(<<Plus(AZD), Lit("&"), Plus(AZD)>>),          \* [A-ZU+0110]+&[A-ZU+0110]+
         Str(<<"T", ".", "U+01AF">>),                           \* T\.U+01AF
         abbrev_pattern1,
         abbrev_pattern2,
         Cat(<<Plus(AZD), Dot>>),                          \* [A-ZU+0110]+\.
         Str(<<"T", "p", ".">>),                           \* Tp\.
         Str(<<"M", "r", ".">>),                           \* Mr\.
         Str(<<"M", "r", "s", ".">>),                      \* Mrs\.
         Str(<<"M", "s", ".">>),                           \* Ms\.
         Str(<<"D", "r", ".">>),                           \* Dr\.
         Str(<<"T", "h", "S", ".">>),                      \* ThS\.
         Str(<<"T", "h", ".", "S">>),                      \* Th\.S
         Str(<<"T", "h", ".", "s">>),                      \* Th\.s
         Str(<<"e", "-", "m", "a", "i", "l">>),            \* e-mail
         Cat(<<Plus(D), Plus(AZ), Star(D), Dash, Plus(D)>>), \* \d+[A-Z]+\d*-\d+
         Str(<<"N", "U+0110", "-", "C", "P">>) >>)              \* NU+0110-CP

\* \([^\s()]*?\([^\s()]+\)[^\s()]*?\)
UrlParens2 ==
  Cat(<< Lit("("), LazyRep(NotIn(Space \cup {"(", ")"}), 0, Unbounded),
         Lit("("), Plus(NotIn(Space \cup {"(", ")"})), Lit(")"),
         LazyRep(NotIn(Space \cup {"(", ")"}), 0, Unbounded), Lit(")") >>)

\* \([^\s]+?\)
UrlParens1 ==
  Cat(<< Lit("("), LazyRep(NotIn(Space), 1, Unbounded), Lit(")") >>)

url_pattern ==
  Alt(<<
    Cat(<<
      Alt(<< \* (?:ftp|http)s?:(?:/{1,3}|[a-z0-9%])
             Cat(<< Alt(<<Str(<<"f", "t", "p">>), Str(<<"h", "t", "t", "p">>)>>),
                    Opt(Lit("s")), Lit(":"),
                    Alt(<<Rep(Lit("/"), 1, 3), In(AsciiLower \cup Digit \cup {"%"})>>) >>),
             \* [a-z0-9.\-]+[.](?:[a-z]{2,13})/
             Cat(<< Plus(In(AsciiLower \cup Digit \cup {".", "-"})), Dot,
                    Rep(In(AsciiLower), 2, 13), Lit("/") >>) >>),
      \* (?:[^\s()<>{}\[\]]+|\(..\(..\)..\)|\(..\))+
      Plus(Alt(<< Plus(NotIn(Space \cup {"(", ")", "<", ">", "{", "}", "[", "]"})),
                  UrlParens2,
                  UrlParens1 >>)),
      \* (?:\(..\(..\)..\)|\(..\)|[^\s`!()\[\]{};:'".,<>?U+00ABU+00BB""''])
      Alt(<< UrlParens2,
             UrlParens1,
             NotIn(Space \cup {"`", "!", "(", ")", "[", "]", "{", "}", ";", ":",
                               "'", "\"", ".", ",", "<", ">", "?", "U+00AB", "U+00BB"}) >>) >>),
    \* (?:[a-z0-9]+(?:[.\-][a-z0-9]+)*[.](?:[a-z]{2,13})\b/?)
    Cat(<< Plus(In(AsciiLower \cup Digit)),
           Star(Cat(<<In({".", "-"}), Plus(In(AsciiLower \cup Digit))>>)),
           Dot, Rep(In(AsciiLower), 2, 13), WordB, Opt(Lit("/")) >>) >>)

\* [a-zA-Z0-9_.+-]+@[a-zA-Z0-9-]+\.[a-zA-Z0-9-.]+
email_pattern ==
  Cat(<< Plus(In(AsciiLower \cup AsciiUpper \cup Digit \cup {"_", ".", "+", "-"})),
         Lit("@"),
         Plus(In(AsciiLower \cup AsciiUpper \cup Digit \cup {"-"})),
         Dot,
         Plus(In(AsciiLower \cup AsciiUpper \cup Digit \cup {"-", "."})) >>)

\* \d{2,}-\d{3,}-\d{3,}
phone_pattern ==
  Cat(<< Rep(D, 2, Unbounded), Dash, Rep(D, 3, Unbounded), Dash, Rep(D, 3, Unbounded) >>)

datetime_pattern ==
  Alt(<< Cat(<<Rep(D, 1, 2), Lit("/"), Rep(D, 1, 2), Lit("/"), Plus(D)>>), \* \d{1,2}/\d{1,2}/\d+
         Cat(<<Rep(D, 1, 2), Lit("/"), Rep(D, 1, 4)>>),                    \* \d{1,2}/\d{1,4}
         Cat(<<Rep(D, 1, 2), Dash, Rep(D, 1, 2), Dash, Plus(D)>>),         \* \d{1,2}-\d{1,2}-\d+
         Cat(<<Rep(D, 1, 2), Dash, Rep(D, 1, 4)>>),                        \* \d{1,2}-\d{1,4}
         Cat(<<Rep(D, 1, 2), Dot, Rep(D, 1, 2), Dot, Plus(D)>>),           \* \d{1,2}\.\d{1,2}\.\d+
         Cat(<<Rep(D, 4, 4), Lit("/"), Rep(D, 1, 2), Lit("/"), Rep(D, 1, 2)>>), \* \d{4}/\d{1,2}/\d{1,2}
         Cat(<<Rep(D, 2, 2), Lit(":"), Rep(D, 2, 2), Lit(":"), Rep(D, 2, 2)>>) >>) \* \d{2}:\d{2}:\d{2}

name_pattern ==
  Alt(<< Cat(<<Plus(D), Plus(AZ), Plus(D)>>),              \* \d+[A-Z]+\d+
         Cat(<<Plus(D), Plus(AZ)>>) >>)                    \* \d+[A-Z]+

number_pattern ==
  Alt(<< Cat(<<Plus(D), Plus(Cat(<<Dot, Plus(D)>>)), Lit(","), Plus(D)>>), \* \d+(?:\.\d+)+,\d+
         Cat(<<Plus(D), Plus(Cat(<<Dot, Plus(D)>>))>>),                    \* \d+(?:\.\d+)+
         Cat(<<Plus(D), Plus(Cat(<<Lit(","), Plus(D)>>))>>),               \* \d+(?:,\d+)+
         Cat(<<Plus(D), Opt(Cat(<<In({".", ",", "_"}), Plus(D)>>))>>) >>)  \* \d+(?:[\.,_]\d+)?

emoji_pattern ==
  Alt(<< Cat(<<Lit(":"), Lit(")"), Star(Lit(")"))>>),      \* :\)\)*
         Cat(<<Lit("="), Lit(")"), Plus(Lit(")"))>>),      \* =\)\)+
         Str(<<"U+2665", "U+203F", "U+2665">>),                           \* U+2665U+203FU+2665
         Cat(<<Lit(":"), Plus(Lit("D")), In(Space)>>),     \* :D+\s
         Cat(<<Lit(":"), Plus(Lit("D")), EndText>>),       \* :D+$
         Str(<<"<", "3">>) >>)                             \* <3

punct_pattern ==
  Alt(<< Dot, Lit(","), Lit("("), Lit(")"), Lit("U+02BA") >>)

\* \b\w+\-[\w+-]*\w+
word_hyphen_pattern ==
  Cat(<< WordB, Plus(W), Dash, Star(In(WordChar \cup {"+", "-"})), Plus(W) >>)

\* \w+
word_pattern == Plus(W)

symbol_pattern ==
  Alt(<< Lit("+"), Lit("U+00D7"), Dash, Lit("U+00F7"), Plus(Lit(":")), Lit("%"), Lit("$"),
         Lit(">"), Lit("<"), Lit("="), Lit("^"), Lit("_") >>)

\* [^\w\s]
non_word_pattern == NotIn(WordChar \cup Space)

\* word.replace(" ", r"\ "): the characters of the pattern text of one fixed
\* word; "\\ " stands for the two characters of an escaped space
EscapeSpaces(word) ==
  [j \in 1..Len(word) |-> IF word[j] = " " THEN "\\ " ELSE word[j]]

\* The regex parser reading the items cs[j..] of one alternative, atoms being
\* the concatenation read so far: an escaped space and an ordinary character
\* are literals, "." is any character but a line feed, "+" repeats the item
\* before it.
RECURSIVE ParseConcat(_, _, _)
ParseConcat(cs, j, atoms) ==
  IF j > Len(cs) THEN Cat(atoms)
  ELSE ParseConcat(cs, j + 1,
         CASE cs[j] = "\\b" -> Append(atoms, WordB)
           [] cs[j] = "\\ " -> Append(atoms, Lit(" "))
           [] cs[j] = "." -> Append(atoms, AnyChar)
           [] cs[j] = "+" -> [atoms EXCEPT ![Len(atoms)] = Plus(atoms[Len(atoms)])]
           [] OTHER -> Append(atoms, Lit(cs[j])))

\* (?P<fixed_words>\b w1 \b|\b w2 \b ...): the escaped words joined by
\* r"\b|\b" between \b and \b, as the regex parser reads the result
fixed_words_pattern(fixed_words) ==
  Alt([j \in 1..Len(fixed_words) |->
         ParseConcat(<<"\\b">> \o EscapeSpaces(fixed_words[j]) \o <<"\\b">>, 1, <<>>)])

\* A variant that joins the word alternative before the number alternative.
build_regex_patterns_WordBeforeNumber(fixed_words) ==
  (IF fixed_words # <<>>
     THEN << [name |-> "fixed_words", re |-> fixed_words_pattern(fixed_words)] >>
     ELSE << >>)
  \o << [name |-> "special", re |-> specials_pattern],
        [name |-> "abbr", re |-> abbreviations_pattern],
        [name |-> "url", re |-> url_pattern],
        [name |-> "email", re |-> email_pattern],
        [name |-> "phone", re |-> phone_pattern],
        [name |-> "datetime", re |-> datetime_pattern],
        [name |-> "name", re |-> name_pattern],
        [name |-> "word", re |-> word_pattern],
        [name |-> "number", re |-> number_pattern],
        [name |-> "emoji", re |-> emoji_pattern],
        [name |-> "punct", re |-> punct_pattern],
        [name |-> "word_hyphen", re |-> word_hyphen_pattern],
        [name |-> "sym", re |-> symbol_pattern],
        [name |-> "non_word", re |-> non_word_pattern] >>

\* The alternatives of the combined pattern, in the order they are joined;
\* each is one named capture group.
build_regex_patterns(fixed_words) ==
  (IF fixed_words # <<>>
     THEN << [name |-> "fixed_words", re |-> fixed_words_pattern(fixed_words)] >>
     ELSE << >>)
  \o << [name |-> "special", re |-> specials_pattern],
        [name |-> "abbr", re |-> abbreviations_pattern],
        [name |-> "url", re |-> url_pattern],
        [name |-> "email", re |-> email_pattern],
        [name |-> "phone", re |-> phone_pattern],
        [name |-> "datetime", re |-> datetime_pattern],
        [name |-> "name", re |-> name_pattern],
        [name |-> "number", re |-> number_pattern],
        [name |-> "emoji", re |-> emoji_pattern],
        [name |-> "punct", re |-> punct_pattern],
        [name |-> "word_hyphen", re |-> word_hyphen_pattern],
        [name |-> "word", re |-> word_pattern],
        [name |-> "sym", re |-> symbol_pattern],
        [name |-> "non_word", re |-> non_word_pattern] >>

(***************************************************************************)
(* Searching: Regex::captures_iter and extract_match                       *)
(***************************************************************************)

NoMatch == [start |-> 0, end |-> 0, name |-> "none"]

\* the match of the combined pattern that starts exactly at s: the first
\* alternative that matches there, with the end that alternative prefers
RECURSIVE MatchAt(_, _, _, _)
MatchAt(patterns, j, text, s) ==
  IF j > Len(patterns) THEN NoMatch
  ELSE LET ends == Ends(patterns[j].re, text, s)
       IN IF ends # <<>>
            THEN [start |-> s, end |-> Head(ends), name |-> patterns[j].name]
            ELSE MatchAt(patterns, j + 1, text, s)

\* the leftmost match that starts at or after from
RECURSIVE Find(_, _, _)
Find(patterns, text, from) ==
  IF from > Len(text) + 1 THEN NoMatch
  ELSE LET m == MatchAt(patterns, 1, text, from)
       IN IF m # NoMatch THEN m ELSE Find(patterns, text, from + 1)

\* One step of the captures iterator, whose state is the offset the next
\* search starts from and the end of the last match (0: none yet).  An empty
\* match at the end of the last match is not reported: the search is redone
\* one character further.
NextCapture(patterns, text, start, last_match_end) ==
  LET m == Find(patterns, text, start)
  IN IF m # NoMatch /\ m.start = m.end /\ m.end = last_match_end
       THEN Find(patterns, text, start + 1)
       ELSE m

extract_match(cap) ==
  CASE cap.name = "special" -> "Special"
    [] cap.name = "abbr" -> "Abbreviation"
    [] cap.name = "url" -> "Url"
    [] cap.name = "email" -> "Email"
    [] cap.name = "phone" -> "Phone"
    [] cap.name = "datetime" -> "DateTime"
    [] cap.name = "name" -> "Name"
    [] cap.name = "number" -> "Number"
    [] cap.name = "emoji" -> "Emoji"
    [] cap.name = "punct" -> "Punct"
    [] cap.name = "word_hyphen" -> "WordHyphen"
    [] cap.name = "word" -> "Word"
    [] cap.name = "sym" -> "Symbol"
    [] cap.name = "non_word" -> "NonWord"
    [] cap.name = "fixed_words" -> "FixedWords"

(***************************************************************************)
(* VietnameseTokenizer                                                     *)
(***************************************************************************)

\* the placeholder of word_tokenize.rs: the text as it is
normalize_characters_in_text(text) == text

\* the placeholder of word_tokenize.rs
token_normalize(token, use_character_normalize) ==
  IF use_character_normalize THEN normalize_characters_in_text(token) ELSE token

\* the Token pushed for one match
MakeToken(text, cap, use_character_normalize, use_token_normalize) ==
  LET token_text == SubSeq(text, cap.start, cap.end - 1)
  IN [text |-> IF use_token_normalize
                 THEN token_normalize(token_text, use_character_normalize)
                 ELSE token_text,
      token_type |-> extract_match(cap)]

\* the matches of the whole iteration, from the iterator state (start, last)
RECURSIVE Captures(_, _, _, _)
Captures(patterns, text, start, last_match_end) ==
  LET m == NextCapture(patterns, text, start, last_match_end)
  IN IF m = NoMatch THEN <<>>
     ELSE <<m>> \o Captures(patterns, text, m.end, m.end)

\* tokenize_with_tags of a tokenizer whose pattern is patterns
tokenize_with_tags(patterns, use_character_normalize, use_token_normalize, text) ==
  LET normalized_text == IF use_character_normalize
                           THEN normalize_characters_in_text(text) ELSE text
      caps == Captures(patterns, normalized_text, 1, 0)
  IN [j \in 1..Len(caps) |->
        MakeToken(normalized_text, caps[j], use_character_normalize, use_token_normalize)]

\* tokenize: the texts of the tokens
\* .map(|(token, _)| token)
TokenTexts(toks) == [j \in 1..Len(toks) |-> toks[j].text]

tokenize(patterns, use_character_normalize, use_token_normalize, text) ==
  TokenTexts(tokenize_with_tags(patterns, use_character_normalize, use_token_normalize, text))

(***************************************************************************)
(* CRFModel: features, scores and Viterbi decoding                         *)
(*                                                                         *)
(* A String is its sequence of characters, so that two formatted keys are  *)
(* equal exactly when the strings are.  A weight is an integer number of   *)
(* tenths (the weights of the code are f64 with one decimal).              *)
(***************************************************************************)

BW == <<"B", "-", "W">>
IW == <<"I", "-", "W">>

\* the characters of the model that UTF-8 encodes in two bytes (U+0080..U+07FF)
TwoByteChars ==
  {
    "U+00AB", "U+00B0", "U+00BB", "U+00C0", "U+00C1", "U+00C2", "U+00C3", "U+00C8",
    "U+00C9", "U+00CA", "U+00CC", "U+00CD", "U+00D2", "U+00D3", "U+00D4", "U+00D5",
    "U+00D7", "U+00D9", "U+00DA", "U+00DD", "U+00E0", "U+00E1", "U+00E2", "U+00E3",
    "U+00E8", "U+00E9", "U+00EA", "U+00EC", "U+00ED", "U+00F2", "U+00F3", "U+00F4",
    "U+00F5", "U+00F7", "U+00F9", "U+00FA", "U+00FD", "U+0102", "U+0103", "U+0110",
    "U+0111", "U+0128", "U+0129", "U+0168", "U+0169", "U+01A0", "U+01A1", "U+01AF",
    "U+01B0", "U+02BA", "U+0300" }

\* the number of bytes of the UTF-8 encoding of a character: 1 for ASCII, 3
\* for the other characters of the model (U+0800..U+FFFF)
Utf8Len(c) ==
  IF c \in TwoByteChars THEN 2
  ELSE IF c \in {w_clean[j] : j \in 1..Len(w_clean)} \cup {"U+2665", "U+203F"} THEN
    (IF c \in {"A", "-", "Z", "a", "z"} THEN 1 ELSE 3)
  ELSE 1

RECURSIVE ByteLen(_)
ByteLen(token) == IF token = <<>> THEN 0 ELSE Utf8Len(Head(token)) + ByteLen(Tail(token))

\* char::is_uppercase
IsUppercase(c) == c \in AsciiUpper \/ c \in {upper_clean[j] : j \in 4..Len(upper_clean)}

FmtBool(b) == IF b THEN <<"t", "r", "u", "e">> ELSE <<"f", "a", "l", "s", "e">>

DigitChars == <<"0", "1", "2", "3", "4", "5", "6", "7", "8", "9">>

\* the decimal digits of a usize
RECURSIVE FmtNat(_)
FmtNat(n) == IF n < 10 THEN <<DigitChars[n + 1]>> ELSE FmtNat(n \div 10) \o <<DigitChars[(n % 10) + 1]>>

BOS == <<"<", "B", "O", "S", ">">>
EOS == <<"<", "E", "O", "S", ">">>

CRFModel_new ==
  [weights |-> << >>, labels |-> <<BW, IW>>, feature_templates |-> << >>, loaded |-> FALSE]

extract_features(tokens, position) ==
  LET current_token == tokens[position]
      n == Len(tokens)
  IN << <<"t", "o", "k", "e", "n", "=">> \o current_token,
        <<"l", "e", "n", "g", "t", "h", "=">> \o FmtNat(ByteLen(current_token)),
        <<"i", "s", "_", "u", "p", "p", "e", "r", "=">>
          \o FmtBool(\A j \in 1..Len(current_token) : IsUppercase(current_token[j])),
        <<"i", "s", "_", "d", "i", "g", "i", "t", "=">>
          \o FmtBool(\A j \in 1..Len(current_token) : current_token[j] \in Digit) >>
     \o (IF current_token # <<>>
           THEN << <<"f", "i", "r", "s", "t", "_", "c", "h", "a", "r", "=">> \o <<Head(current_token)>>,
                   <<"l", "a", "s", "t", "_", "c", "h", "a", "r", "=">>
                     \o <<current_token[Len(current_token)]>> >>
           ELSE << >>)
     \o << <<"p", "r", "e", "v", "_", "t", "o", "k", "e", "n", "=">>
             \o (IF position > 1 THEN tokens[position - 1] ELSE BOS),
           <<"n", "e", "x", "t", "_", "t", "o", "k", "e", "n", "=">>
             \o (IF position < n THEN tokens[position + 1] ELSE EOS) >>
     \o (IF position > 1
           THEN << <<"p", "r", "e", "v", "_", "c", "u", "r", "r", "e", "n", "t", "=">>
                     \o tokens[position - 1] \o <<"_">> \o current_token >>
           ELSE << >>)
     \o (IF position < n
           THEN << <<"c", "u", "r", "r", "e", "n", "t", "_", "n", "e", "x", "t", "=">>
                     \o current_token \o <<"_">> \o tokens[position + 1] >>
           ELSE << >>)

\* format!("{}#{}", a, b)
Key(a, b) == a \o <<"#">> \o b

\* weights.get(key), 0 standing for an absent key where the code adds nothing
WeightOr0(model, key) ==
  LET hits == {j \in 1..Len(model.weights) : model.weights[j][1] = key}
  IN IF hits = {} THEN 0 ELSE model.weights[CHOOSE j \in hits : TRUE][2]

\* the sum, over the features of one position, of the weights of feature#label
RECURSIVE SumFeatures(_, _, _, _)
SumFeatures(model, features, j, label) ==
  IF j > Len(features) THEN 0
  ELSE WeightOr0(model, Key(features[j], label)) + SumFeatures(model, features, j + 1, label)

EmissionScore(model, tokens, position, label) ==
  SumFeatures(model, extract_features(tokens, position), 1, label)

RECURSIVE score_sequence_from(_, _, _, _)
score_sequence_from(model, tokens, tags, i) ==
  IF i > Len(tags) THEN 0
  ELSE EmissionScore(model, tokens, i, tags[i])
       + (IF i > 1 THEN WeightOr0(model, Key(tags[i - 1], tags[i])) ELSE 0)
       + score_sequence_from(model, tokens, tags, i + 1)

score_sequence(model, tokens, tags) == score_sequence_from(model, tokens, tags, 1)

\* f64::NEG_INFINITY and the finite scores
NegInfinity == [finite |-> FALSE, v |-> 0]
Finite(x) == [finite |-> TRUE, v |-> x]
Plus64(a, x) == IF a.finite THEN Finite(a.v + x) ELSE a
Greater(a, b) == a.finite /\ (~b.finite \/ a.v > b.v)

\* A variant in which a later previous label replaces an earlier one of the
\* same score.
RECURSIVE ViterbiCell_LastOnTie(_, _, _, _, _, _)
ViterbiCell_LastOnTie(model, prev_dp, curr_label, emission_score, k, cell) ==
  IF k > Len(model.labels) THEN cell
  ELSE LET transition_score == WeightOr0(model, Key(model.labels[k], curr_label))
           total_score == Plus64(prev_dp[k], transition_score + emission_score)
       IN ViterbiCell_LastOnTie(model, prev_dp, curr_label, emission_score, k + 1,
                                IF ~Greater(cell[1], total_score) THEN <<total_score, k>> ELSE cell)

\* the loop over the previous labels k.. for dp[i][j]: cell is <<dp[i][j],
\* backtrack[i][j]>> so far
RECURSIVE ViterbiCell(_, _, _, _, _, _)
ViterbiCell(model, prev_dp, curr_label, emission_score, k, cell) ==
  IF k > Len(model.labels) THEN cell
  ELSE LET transition_score == WeightOr0(model, Key(model.labels[k], curr_label))
           total_score == Plus64(prev_dp[k], transition_score + emission_score)
       IN ViterbiCell(model, prev_dp, curr_label, emission_score, k + 1,
                      IF Greater(total_score, cell[1]) THEN <<total_score, k>> ELSE cell)

\* the rows 1..i of the tables: [dp |-> row, backtrack |-> row] for each token
RECURSIVE ViterbiForward(_, _, _)
ViterbiForward(model, tokens, i) ==
  IF i = 1
    THEN << [dp |-> [j \in 1..Len(model.labels) |->
                       Finite(EmissionScore(model, tokens, 1, model.labels[j]))],
             backtrack |-> [j \in 1..Len(model.labels) |-> 1]] >>
    ELSE LET rows == ViterbiForward(model, tokens, i - 1)
             cells == [j \in 1..Len(model.labels) |->
                         ViterbiCell(model, rows[i - 1].dp, model.labels[j],
                                     EmissionScore(model, tokens, i, model.labels[j]),
                                     1, <<NegInfinity, 1>>)]
         IN Append(rows, [dp |-> [j \in 1..Len(model.labels) |-> cells[j][1]],
                          backtrack |-> [j \in 1..Len(model.labels) |-> cells[j][2]]])

\* the loop over j.. that finds the best final state
RECURSIVE BestFinalState(_, _, _)
BestFinalState(last_dp, j, best) ==
  IF j > Len(last_dp) THEN best
  ELSE BestFinalState(last_dp, j + 1, IF Greater(last_dp[j], last_dp[best]) THEN j ELSE best)

\* result[i - 1] = backtrack[i][result[i]], from the last token down
RECURSIVE Backtrack(_, _, _)
Backtrack(rows, i, state) ==
  IF i = 1 THEN <<state>>
  ELSE Append(Backtrack(rows, i - 1, rows[i].backtrack[state]), state)

\* A variant whose result lacks the label of the first token.
viterbi_decode_DropsFirst(model, tokens) ==
  IF tokens = <<>> THEN <<>>
  ELSE LET n_tokens == Len(tokens)
           rows == ViterbiForward(model, tokens, n_tokens)
           best_final_state == BestFinalState(rows[n_tokens].dp, 2, 1)
           result == Backtrack(rows, n_tokens, best_final_state)
       IN [i \in 1..(n_tokens - 1) |-> model.labels[result[i + 1]]]

\* A variant that gives each token the label of its best emission score and
\* ignores the transitions.
viterbi_decode_EmissionOnly(model, tokens) ==
  [i \in 1..Len(tokens) |->
     IF EmissionScore(model, tokens, i, model.labels[2])
          > EmissionScore(model, tokens, i, model.labels[1])
       THEN model.labels[2] ELSE model.labels[1]]

viterbi_decode(model, tokens) ==
  IF tokens = <<>> THEN <<>>
  ELSE LET n_tokens == Len(tokens)
           rows == ViterbiForward(model, tokens, n_tokens)
           best_final_state == BestFinalState(rows[n_tokens].dp, 2, 1)
           result == Backtrack(rows, n_tokens, best_final_state)
       IN [i \in 1..n_tokens |-> model.labels[result[i]]]

\* the dummy weights load inserts, in tenths
DummyWeights ==
  << <<Key(<<"t", "o", "k", "e", "n", "=", "B", "U+00E1", "c">>, BW), 20>>,
     <<Key(<<"t", "o", "k", "e", "n", "=", "s", "U+0129">>, IW), 15>>,
     <<Key(<<"t", "o", "k", "e", "n", "=", "b", "U+00E2", "y">>, BW), 18>>,
     <<Key(<<"t", "o", "k", "e", "n", "=", "g", "i", "U+1EDD">>, IW), 13>>,
     <<Key(<<"t", "o", "k", "e", "n", "=", "c", "U+00F3">>, BW), 19>>,
     <<Key(<<"t", "o", "k", "e", "n", "=", "t", "h", "U+1EC3">>, IW), 14>>,
     <<Key(BW, IW), 10>>,
     <<Key(IW, BW), 5>>,
     <<Key(BW, BW), 3>>,
     <<Key(IW, IW), 8>> >>

\* HashMap::insert of each entry of entries[j..]
RECURSIVE InsertAll(_, _, _)
InsertAll(weights, entries, j) ==
  IF j > Len(entries) THEN weights
  ELSE LET kept == SelectSeq(weights, LAMBDA e : e[1] # entries[j][1])
       IN InsertAll(Append(kept, entries[j]), entries, j + 1)

\* A variant that fails, and loads nothing, when the path does not exist.
load_FailsOnMissingPath(model, path_exists) ==
  IF path_exists
    THEN [model |-> [model EXCEPT !.weights = InsertAll(model.weights, DummyWeights, 1),
                                  !.loaded = TRUE],
          result |-> "Ok", warned |-> FALSE]
    ELSE [model |-> model, result |-> "Err", warned |-> FALSE]

\* A variant that inserts the weights but leaves loaded as it was.
load_NotMarkedLoaded(model, path_exists) ==
  [model |-> [model EXCEPT !.weights = InsertAll(model.weights, DummyWeights, 1)],
   result |-> "Ok",
   warned |-> ~path_exists]

\* CRFModel::load: [model, result, warned]; the path only decides the warning
load(model, path_exists) ==
  [model |-> [model EXCEPT !.weights = InsertAll(model.weights, DummyWeights, 1),
                           !.loaded = TRUE],
   result |-> "Ok",
   warned |-> ~path_exists]

\* A variant that returns for empty features before it looks at loaded.
predict_EmptyBeforeLoaded(model, features) ==
  IF features = <<>> THEN [panicked |-> FALSE, tags |-> <<>>]
  ELSE IF ~model.loaded THEN [panicked |-> TRUE, tags |-> <<>>]
  ELSE [panicked |-> FALSE,
        tags |-> viterbi_decode(model, [j \in 1..Len(features) |-> features[j][1]])]

\* CRFModel::predict: [panicked, tags]
predict(model, features) ==
  IF ~model.loaded THEN [panicked |-> TRUE, tags |-> <<>>]
  ELSE IF features = <<>> THEN [panicked |-> FALSE, tags |-> <<>>]
  ELSE [panicked |-> FALSE,
        tags |-> viterbi_decode(model, [j \in 1..Len(features) |-> features[j][1]])]

\* the features word_tokenize_with_options prepares: vec![token] per token
PrepareFeatures(tokens) == [j \in 1..Len(tokens) |-> <<tokens[j]>>]

\* the loop "Combine tokens based on tags" over zip(tags, tokens), from pair j
RECURSIVE CombineFrom(_, _, _, _)
CombineFrom(tags, tokens, j, output) ==
  IF j > Len(tags) \/ j > Len(tokens) THEN output
  ELSE CombineFrom(tags, tokens, j + 1,
         IF tags[j] = IW /\ output # <<>>
           THEN [output EXCEPT ![Len(output)] = output[Len(output)] \o <<" ">> \o tokens[j]]
           ELSE Append(output, tokens[j]))

\* A variant that starts a word at every token, whatever its tag.
Combine_EveryTokenAWord(tags, tokens) ==
  SubSeq(tokens, 1, IF Len(tags) < Len(tokens) THEN Len(tags) ELSE Len(tokens))

\* A variant without the !output.is_empty() test: a leading I-W token finds
\* no last word to continue and is lost.
Combine_LeadingInsideLost(tags, tokens) ==
  IF tags # <<>> /\ tokens # <<>> /\ tags[1] = IW
    THEN CombineFrom(Tail(tags), Tail(tokens), 1, <<>>)
    ELSE CombineFrom(tags, tokens, 1, <<>>)

Combine(tags, tokens) == CombineFrom(tags, tokens, 1, <<>>)

(***************************************************************************)
(* VietnameseWordSegmenter                                                 *)
(***************************************************************************)

\* A tokenizer is the fixed words its pattern was built from and its two
\* switches.
VietnameseTokenizer_new ==
  [fixed_words |-> <<>>, use_character_normalize |-> TRUE, use_token_normalize |-> TRUE]

VietnameseTokenizer_with_fixed_words(fixed_words) ==
  [fixed_words |-> fixed_words, use_character_normalize |-> TRUE, use_token_normalize |-> TRUE]

\* impl Clone: the pattern is rebuilt from no fixed words
VietnameseTokenizer_clone(self) ==
  [fixed_words |-> <<>>,
   use_character_normalize |-> self.use_character_normalize,
   use_token_normalize |-> self.use_token_normalize]

set_token_normalize(self, enabled) == [self EXCEPT !.use_token_normalize = enabled]

DefaultModelPath == "models/ws_crf_vlsp2013_20230727"
MissingModelPath == "nonexistent/model/path"

VietnameseWordSegmenter_new ==
  [tokenizer |-> VietnameseTokenizer_new, model_path |-> "None"]

VietnameseWordSegmenter_with_model_path(model_path) ==
  [tokenizer |-> VietnameseTokenizer_new, model_path |-> model_path]

VietnameseWordSegmenter_with_fixed_words(fixed_words) ==
  [tokenizer |-> VietnameseTokenizer_with_fixed_words(fixed_words), model_path |-> "None"]

\* word.replace(' ', "_")
ReplaceSpaces(word) == [j \in 1..Len(word) |-> IF word[j] = " " THEN "_" ELSE word[j]]

\* words.join(" ")
RECURSIVE JoinSpace(_)
JoinSpace(words) ==
  IF words = <<>> THEN <<>>
  ELSE IF Len(words) = 1 THEN words[1]
  ELSE words[1] \o <<" ">> \o JoinSpace(Tail(words))

\* output.iter().map(|word| word.replace(' ', "_")).collect().join(" ")
FormatAsText(output) == JoinSpace([j \in 1..Len(output) |-> ReplaceSpaces(output[j])])

\* the arguments word_tokenize and word_tokenize_as_text pass on
OptionsOf(op) ==
  [format_as_text |-> FALSE, use_token_normalize |-> TRUE, fixed_words |-> <<>>]

\* the tokenizer word_tokenize_with_options works with
SelectTokenizer(self, use_token_normalize, fixed_words) ==
  set_token_normalize(
    IF fixed_words = <<>> THEN VietnameseTokenizer_clone(self.tokenizer)
    ELSE VietnameseTokenizer_with_fixed_words(fixed_words),
    use_token_normalize)

\* A variant of the lock that excludes nobody.
CanLock_NoExclusion(holder) == TRUE

\* a mutex can be taken when no thread holds it
CanLock(holder) == holder = 0

(***************************************************************************)
(* text_normalize: the rules, character_normalize.rs and token_normalize.rs *)
(*                                                                         *)
(* A map of the rules is the sequence of its <<key, value>> entries in the *)
(* order the HashMap iterates them; the keys are distinct.  The rules file *)
(* itself is not part of the sources, so the maps are inputs.              *)
(***************************************************************************)

\* the canonical composition this model knows: a followed by the combining
\* grave accent U+0300 composes to U+00E0; every other character is inert
Composes(c, mark) == c = "a" /\ mark = "U+0300"
Composed(c, mark) == "U+00E0"

\* text.nfc().collect()
RECURSIVE utf8_normalize(_)
utf8_normalize(text) ==
  IF Len(text) < 2 THEN text
  ELSE IF Composes(text[1], text[2])
    THEN <<Composed(text[1], text[2])>> \o utf8_normalize(SubSeq(text, 3, Len(text)))
    ELSE <<text[1]>> \o utf8_normalize(Tail(text))

\* str::replace(from, to) for a non-empty from: the matches are taken from the
\* left and do not overlap
RECURSIVE StrReplace(_, _, _)
StrReplace(text, from, to) ==
  IF Len(text) < Len(from) THEN text
  ELSE IF SubSeq(text, 1, Len(from)) = from
    THEN to \o StrReplace(SubSeq(text, Len(from) + 1, Len(text)), from, to)
    ELSE <<text[1]>> \o StrReplace(Tail(text), from, to)

\* the loop of character_normalize over the entries j.. of the map
RECURSIVE character_normalize_from(_, _, _)
character_normalize_from(map, j, result) ==
  IF j > Len(map) THEN result
  ELSE character_normalize_from(map, j + 1, StrReplace(result, map[j][1], map[j][2]))

character_normalize(rules, text) == character_normalize_from(rules.character_map, 1, text)

\* character_normalize.rs: normalize_characters_in_text
text_normalize_normalize_characters_in_text(rules, text) ==
  character_normalize(rules, utf8_normalize(text))

\* HashMap::get
MapGet(map, key) ==
  LET hits == {j \in 1..Len(map) : map[j][1] = key}
  IN IF hits = {} THEN [found |-> FALSE, value |-> <<>>]
     ELSE [found |-> TRUE, value |-> map[CHOOSE j \in hits : TRUE][2]]

\* the length above which token_normalize.rs leaves a token alone
TokenLengthCutoff == 6

\* A variant that compares the length with one more than the cutoff.
text_normalize_token_normalize_LaterCutoff(rules, token, use_character_normalize) ==
  IF ByteLen(token) > TokenLengthCutoff + 1 THEN token
  ELSE LET normalized_token ==
             IF use_character_normalize
               THEN text_normalize_normalize_characters_in_text(rules, token)
               ELSE token
           mapped_token == MapGet(rules.token_map, normalized_token)
       IN IF mapped_token.found THEN mapped_token.value ELSE normalized_token

\* token_normalize.rs: token_normalize; token.len() is the length in bytes
text_normalize_token_normalize(rules, token, use_character_normalize) ==
  IF ByteLen(token) > TokenLengthCutoff THEN token
  ELSE LET normalized_token ==
             IF use_character_normalize
               THEN text_normalize_normalize_characters_in_text(rules, token)
               ELSE token
           mapped_token == MapGet(rules.token_map, normalized_token)
       IN IF mapped_token.found THEN mapped_token.value ELSE normalized_token

(***************************************************************************)
(* State                                                                   *)
(***************************************************************************)

VARIABLES
  \* one VietnameseTokenizer::tokenize_with_tags call
  tk_fixed,      \* the fixed words the tokenizer was built with
  tk_text,       \* the text argument
  tk_start,      \* captures_iter: where the next search starts
  tk_last,       \* captures_iter: end of the last match, 0 when none yet
  tk_caps,       \* the matches found so far, as spans with their group name
  tk_tokens,     \* the tokens Vec
  tk_pc,         \* "iter": at the loop head, "body": in the loop body, "done": returned
  \* one FastCRFSequenceTagger used on its own, and one run of the merge loop
  crf_model,     \* the CRFModel
  crf_pc,        \* "new", "loaded", "predicted", "decoded" or "panicked"
  crf_load,      \* the last load: [called, path_exists, result]
  crf_tokens,    \* the tokens predict is given
  crf_out,       \* what predict gave: [panicked, tags]
  crf_position,  \* the position extract_features was called with, 0 when not called
  crf_features,  \* what extract_features gave
  mg_tags,       \* the tags the merge loop is given
  mg_output,     \* the output of the merge loop
  mg_done,       \* the merge loop has run
  \* the word segmenter and the threads that call it
  fs_model_exists, \* the default model path exists in the file system
  callers,       \* the threads that call the segmenter
  pool,          \* the sentences they pass
  calls,         \* the calls they make: [self, op]
  global_model,  \* WORD_TOKENIZE_MODEL: [is_some, model, id]
  mutex_holder,  \* the thread that holds its mutex, 0 when free
  mutex_poisoned, \* a thread panicked while holding it
  n_loads,       \* how many models have been constructed and loaded
  th,            \* per thread: the call it is in and its locals
  \* the normalization rules, and calls of the functions of text_normalize
  rules,         \* TEXT_NORMALIZER: [character_map, token_map]
  nm_input,      \* the text, or the token, the functions are called on
  nm_ucn,        \* the use_character_normalize argument of token_normalize
  nm_once,       \* normalize_characters_in_text(nm_input)
  nm_twice,      \* normalize_characters_in_text(nm_once)
  nm_token,      \* token_normalize(nm_input, nm_ucn)
  nm_done        \* which of "once", "twice", "token" have been computed

tokVars == <<tk_fixed, tk_text, tk_start, tk_last, tk_caps, tk_tokens, tk_pc>>
crfVars == <<crf_model, crf_pc, crf_load, crf_tokens, crf_out, crf_position, crf_features,
             mg_tags, mg_output, mg_done>>
segVars == <<fs_model_exists, callers, pool, calls, global_model, mutex_holder, mutex_poisoned,
             n_loads, th>>

normVars == <<rules, nm_input, nm_ucn, nm_once, nm_twice, nm_token, nm_done>>

vars == <<tokVars, crfVars, segVars, normVars>>

(***************************************************************************)
(* Bounds                                                                  *)
(***************************************************************************)

\* longest text given to the tokenizer
MaxLen == 4

\* the characters of the texts tokenized without fixed words
Alphabet == {"a", "1", "D", " ", ":", ".", "-"}

\* the characters of the texts tokenized with fixed words
FixedAlphabet == {"a", " ", ".", "+"}

\* the fixed-word lists a tokenizer is built with
FixedWordLists ==
  { << <<"a", " ", "a">> >>,
    << <<"a", ".", "a">> >>,
    << <<"a", "+", "a">> >>,
    << <<"a">>, <<"a", " ", "a">> >>,
    << << >> >> }

SeqsOver(chars, n) == UNION {[1..m -> chars] : m \in 0..n}

TextsOver(chars) == SeqsOver(chars, MaxLen)

\* longest token sequence given to the tagger
MaxTokens == 3

\* the tokens given to the tagger
CrfVocab ==
  { <<"B", "U+00E1", "c">>, <<"s", "U+0129">>, <<"x">> }

\* the tokens given to extract_features: one plain token and the two texts
\* the function uses for the ends of the sequence
FeatureVocab == { <<"x">>, BOS, EOS }

\* number of threads
NThreads == 2

Threads == 1..NThreads

\* longest sentence given to the segmenter by a single caller
MaxSentenceLen == 3

\* the characters of those sentences
SentenceAlphabet == {"a", " ", "D", ":"}

\* the sentence concurrent callers pass
ConcurrentSentences == { <<"a", " ", "a">> }

\* the segmenters the calls are made on
Segmenters ==
  { VietnameseWordSegmenter_new,
    VietnameseWordSegmenter_with_model_path(MissingModelPath),
    VietnameseWordSegmenter_with_fixed_words(<< <<"a", " ", "a">> >>) }

\* the segmenters concurrent calls are made on
ConcurrentSegmenters ==
  { VietnameseWordSegmenter_new,
    VietnameseWordSegmenter_with_model_path(MissingModelPath) }

Ops == {"word_tokenize", "word_tokenize_as_text"}

\* the arguments of the direct calls of word_tokenize_with_options
DirectOptions ==
  { [format_as_text |-> TRUE, use_token_normalize |-> TRUE, fixed_words |-> <<>>],
    [format_as_text |-> FALSE, use_token_normalize |-> FALSE, fixed_words |-> <<>>],
    [format_as_text |-> FALSE, use_token_normalize |-> TRUE,
     fixed_words |-> << <<"a", " ", "a">> >>] }

\* the rules in force while the segmenter is called: a token_map with a key
\* that is a token of the sentences
SegmenterRules ==
  { [character_map |-> <<>>, token_map |-> << << <<"a">>, <<"x">> >> >>] }

\* longest text given to normalize_characters_in_text
MaxTextLen == 3

\* the characters of those texts: a base and the mark it composes with, and
\* two characters that do not compose
NormAlphabet == {"a", "U+0300", "b", "c"}

\* longest token given to token_normalize, in characters
MaxTokenChars == 7

\* the characters of those tokens: one of one byte and one of three bytes
TokenAlphabet == {"b", "U+1EDD"}

\* the character maps of the rules, each in an iteration order
CharacterMaps ==
  { << >>,
    << << <<"b">>, <<"c">> >> >>,
    << << <<"b", "c">>, <<"d">> >> >>,
    << << <<"c">>, <<"d">> >>, << <<"b">>, <<"c">> >> >>,
    << << <<"b">>, <<"c">> >>, << <<"c">>, <<"d">> >> >>,
    << << <<"b">>, <<"b", "b">> >> >>,
    << << <<"b">>, <<"U+0300">> >> >>,
    << << <<"b">>, <<"a">> >> >>,
    << << <<"b", "c">>, << >> >> >>,
    << << <<"b", "c">>, <<"x">> >>, << <<"c", "b">>, <<"y">> >> >> }

\* the token maps of the rules
TokenMaps ==
  { << >>,
    << << <<"b">>, <<"x">> >>,
       << <<"c">>, <<"y">> >>,
       << <<"U+1EDD", "U+1EDD">>, <<"z">> >>,
       << <<"U+1EDD", "U+1EDD", "U+1EDD">>, <<"v">> >>,
       << <<"b", "b", "b", "b", "b", "b", "b">>, <<"w">> >> >> }

NormInputs == SeqsOver(NormAlphabet, MaxTextLen) \cup SeqsOver(TokenAlphabet, MaxTokenChars)

(***************************************************************************)
(* Initial values of the parts                                             *)
(***************************************************************************)

TokIdle ==
  /\ tk_fixed = <<>>
  /\ tk_text = <<>>
  /\ tk_start = 1
  /\ tk_last = 0
  /\ tk_caps = <<>>
  /\ tk_tokens = <<>>
  /\ tk_pc = "done"

NoLoad == [called |-> FALSE, path_exists |-> FALSE, result |-> "none"]
NoOut == [panicked |-> FALSE, tags |-> <<>>]

CrfIdle ==
  /\ crf_model = CRFModel_new
  /\ crf_pc = "new"
  /\ crf_load = NoLoad
  /\ crf_tokens = <<>>
  /\ crf_out = NoOut
  /\ crf_position = 0
  /\ crf_features = <<>>
  /\ mg_tags = <<>>
  /\ mg_output = <<>>
  /\ mg_done = TRUE

NoModel == [is_some |-> FALSE, model |-> CRFModel_new, id |-> 0]

IdleThread ==
  [pc |-> "idle", self |-> VietnameseWordSegmenter_new, op |-> "none", sentence |-> <<>>,
   toks |-> <<>>, tags |-> <<>>, output |-> <<>>,
   ret |-> <<>>, used |-> 0, fallback |-> FALSE, first_use |-> FALSE,
   opts |-> OptionsOf("none")]

SegIdle ==
  /\ fs_model_exists = FALSE
  /\ callers = {}
  /\ pool = {}
  /\ calls = {}
  /\ global_model = NoModel
  /\ mutex_holder = 0
  /\ mutex_poisoned = FALSE
  /\ n_loads = 0
  /\ th = [t \in Threads |-> IdleThread]

NoRules == [character_map |-> <<>>, token_map |-> <<>>]

NormUnused ==
  /\ nm_input = <<>>
  /\ nm_ucn = FALSE
  /\ nm_once = <<>>
  /\ nm_twice = <<>>
  /\ nm_token = <<>>
  /\ nm_done = {}

NormIdle == rules = NoRules /\ NormUnused

(***************************************************************************)
(* TokSpec: one tokenize_with_tags call, match by match                    *)
(***************************************************************************)

TokInit ==
  /\ \/ tk_fixed = <<>> /\ tk_text \in TextsOver(Alphabet)
     \/ tk_fixed \in FixedWordLists /\ tk_text \in TextsOver(FixedAlphabet)
  /\ tk_start = 1
  /\ tk_last = 0
  /\ tk_caps = <<>>
  /\ tk_tokens = <<>>
  /\ tk_pc = "iter"
  /\ CrfIdle
  /\ SegIdle
  /\ NormIdle

\* the for loop asks the iterator for the next match: there is one, or the
\* iterator is exhausted and the tokens are returned
TokIterNext ==
  /\ tk_pc = "iter"
  /\ LET m == NextCapture(build_regex_patterns(tk_fixed),
                          normalize_characters_in_text(tk_text), tk_start, tk_last)
     IN IF m = NoMatch
          THEN /\ tk_pc' = "done"
               /\ UNCHANGED <<tk_start, tk_last, tk_caps>>
          ELSE /\ tk_pc' = "body"
               /\ tk_start' = m.end
               /\ tk_last' = m.end
               /\ tk_caps' = Append(tk_caps, m)
  /\ UNCHANGED <<tk_fixed, tk_text, tk_tokens, crfVars, segVars, normVars>>

\* the loop body pushes the token of the match
TokPush ==
  /\ tk_pc = "body"
  /\ tk_tokens' = Append(tk_tokens,
                         MakeToken(normalize_characters_in_text(tk_text),
                                   tk_caps[Len(tk_caps)], TRUE, TRUE))
  /\ tk_pc' = "iter"
  /\ UNCHANGED <<tk_fixed, tk_text, tk_start, tk_last, tk_caps, crfVars, segVars, normVars>>

TokNext == TokIterNext \/ TokPush

TokSpec == TokInit /\ [][TokNext]_vars

(***************************************************************************)
(* CrfSpec: a tagger of its own (new, load, predict), and the merge loop   *)
(* of word_tokenize_with_options run on given tokens and tags              *)
(***************************************************************************)

TokenSeqs == SeqsOver(CrfVocab, MaxTokens)

CrfInit ==
  /\ crf_model = CRFModel_new
  /\ crf_pc = "new"
  /\ crf_load = NoLoad
  /\ crf_tokens \in TokenSeqs
  /\ crf_out = NoOut
  /\ crf_position = 0
  /\ crf_features = <<>>
  /\ mg_tags \in [1..Len(crf_tokens) -> {BW, IW}]
  /\ mg_output = <<>>
  /\ mg_done = FALSE
  /\ TokIdle
  /\ SegIdle
  /\ NormIdle

\* model.load(path), the path existing or not
CrfLoad ==
  /\ crf_pc = "new"
  /\ \E path_exists \in BOOLEAN :
       LET r == load(crf_model, path_exists)
       IN /\ crf_model' = r.model
          /\ crf_load' = [called |-> TRUE, path_exists |-> path_exists, result |-> r.result]
  /\ crf_pc' = "loaded"
  /\ UNCHANGED <<crf_position, crf_features, crf_tokens, crf_out, mg_tags, mg_output, mg_done,
                 tokVars, segVars, normVars>>

\* model.predict(features), before or after load
CrfPredict ==
  /\ crf_pc \in {"new", "loaded"}
  /\ crf_out' = predict(crf_model, PrepareFeatures(crf_tokens))
  /\ crf_pc' = IF crf_out'.panicked THEN "panicked" ELSE "predicted"
  /\ UNCHANGED <<crf_position, crf_features, crf_model, crf_load, crf_tokens, mg_tags, mg_output, mg_done,
                 tokVars, segVars, normVars>>

\* the merge loop on the tokens and the given tags
CrfCombine ==
  /\ ~mg_done
  /\ mg_output' = Combine(mg_tags, crf_tokens)
  /\ mg_done' = TRUE
  /\ UNCHANGED <<crf_position, crf_features, crf_model, crf_pc, crf_load, crf_tokens, crf_out, mg_tags,
                 tokVars, segVars, normVars>>

\* model.viterbi_decode(tokens) called on the model as it is, the way the
\* tests of the module call the private methods, before or after load
CrfDecode ==
  /\ crf_pc \in {"new", "loaded"}
  /\ crf_out' = [panicked |-> FALSE, tags |-> viterbi_decode(crf_model, crf_tokens)]
  /\ crf_pc' = "decoded"
  /\ UNCHANGED <<crf_position, crf_features, crf_model, crf_load, crf_tokens, mg_tags, mg_output, mg_done,
                 tokVars, segVars, normVars>>

CrfNext == CrfLoad \/ CrfPredict \/ CrfDecode \/ CrfCombine

CrfSpec == CrfInit /\ [][CrfNext]_vars

(***************************************************************************)
(* NormSpec: normalize_characters_in_text, applied once and once more, and *)
(* token_normalize, on one input under one set of rules                    *)
(***************************************************************************)

NormInit ==
  /\ rules \in [character_map : CharacterMaps, token_map : TokenMaps]
  /\ nm_input \in NormInputs
  /\ nm_ucn \in BOOLEAN
  /\ nm_once = <<>>
  /\ nm_twice = <<>>
  /\ nm_token = <<>>
  /\ nm_done = {}
  /\ TokIdle
  /\ CrfIdle
  /\ SegIdle

\* normalize_characters_in_text(input)
NormNormalize ==
  /\ "once" \notin nm_done
  /\ nm_once' = text_normalize_normalize_characters_in_text(rules, nm_input)
  /\ nm_done' = nm_done \cup {"once"}
  /\ UNCHANGED <<rules, nm_input, nm_ucn, nm_twice, nm_token, tokVars, crfVars, segVars>>

\* normalize_characters_in_text of what the first call returned
NormNormalizeAgain ==
  /\ "once" \in nm_done
  /\ "twice" \notin nm_done
  /\ nm_twice' = text_normalize_normalize_characters_in_text(rules, nm_once)
  /\ nm_done' = nm_done \cup {"twice"}
  /\ UNCHANGED <<rules, nm_input, nm_ucn, nm_once, nm_token, tokVars, crfVars, segVars>>

\* token_normalize(input, use_character_normalize)
NormTokenNormalize ==
  /\ "token" \notin nm_done
  /\ nm_token' = text_normalize_token_normalize(rules, nm_input, nm_ucn)
  /\ nm_done' = nm_done \cup {"token"}
  /\ UNCHANGED <<rules, nm_input, nm_ucn, nm_once, nm_twice, tokVars, crfVars, segVars>>

NormNext == NormNormalize \/ NormNormalizeAgain \/ NormTokenNormalize

NormSpec == NormInit /\ [][NormNext]_vars

(***************************************************************************)
(* FeatSpec: extract_features called on given tokens at a position of      *)
(* them, as test_feature_extraction calls it on CRFModel::new()             *)
(***************************************************************************)

FeatInit ==
  /\ crf_model = CRFModel_new
  /\ crf_pc = "new"
  /\ crf_load = NoLoad
  /\ crf_tokens \in SeqsOver(FeatureVocab, MaxTokens) \ {<<>>}
  /\ crf_out = NoOut
  /\ crf_position = 0
  /\ crf_features = <<>>
  /\ mg_tags = <<>>
  /\ mg_output = <<>>
  /\ mg_done = TRUE
  /\ TokIdle
  /\ SegIdle
  /\ NormIdle

\* model.extract_features(&tokens, position - 1), position within the tokens
FeatExtract ==
  /\ crf_position = 0
  /\ \E position \in 1..Len(crf_tokens) :
       /\ crf_position' = position
       /\ crf_features' = extract_features(crf_tokens, position)
  /\ UNCHANGED <<crf_model, crf_pc, crf_load, crf_tokens, crf_out, mg_tags, mg_output, mg_done,
                 tokVars, segVars, normVars>>

FeatSpec == FeatInit /\ [][FeatExtract]_vars

(***************************************************************************)
(* Spec: threads calling word_tokenize and word_tokenize_as_text           *)
(* SeqSpec: the same calls made by a single caller, on more sentences      *)
(***************************************************************************)

Sentences == SeqsOver(SentenceAlphabet, MaxSentenceLen)

SegStart(cs, ss, ms, rs) ==
  /\ fs_model_exists \in BOOLEAN
  /\ callers = cs
  /\ pool = ss
  /\ calls = ms
  /\ global_model = NoModel
  /\ mutex_holder = 0
  /\ mutex_poisoned = FALSE
  /\ n_loads = 0
  /\ th = [t \in Threads |-> IdleThread]
  /\ TokIdle
  /\ CrfIdle
  /\ rules \in rs
  /\ NormUnused

\* every thread calls word_tokenize, on a segmenter with or without a model path
Init ==
  SegStart(Threads, ConcurrentSentences,
           {[self |-> self, op |-> "word_tokenize", opts |-> OptionsOf("word_tokenize")] :
              self \in ConcurrentSegmenters},
           {NoRules})

\* one caller makes any of the calls, on one sentence
SeqInit ==
  \E sentence \in Sentences :
    SegStart({1}, {sentence},
             {[self |-> self, op |-> op, opts |-> OptionsOf(op)] :
                self \in Segmenters, op \in Ops}
             \cup {[self |-> self, op |-> "word_tokenize_with_options", opts |-> opts] :
                     self \in Segmenters, opts \in DirectOptions},
             SegmenterRules)

Set(t, fields) == th' = [th EXCEPT ![t] = fields]

\* the path ensure_model_loaded loads from, and whether it exists
ModelPathOf(self) == IF self.model_path = "None" THEN DefaultModelPath ELSE self.model_path

PathExists(path) == path = DefaultModelPath /\ fs_model_exists

\* a caller enters word_tokenize or word_tokenize_as_text
Call(t) ==
  /\ t \in callers
  /\ th[t].pc \in {"idle", "returned"}
  /\ \E call \in calls, sentence \in pool :
       Set(t, [IdleThread EXCEPT !.pc = "ensure_lock", !.self = call.self, !.op = call.op,
                                 !.sentence = sentence, !.opts = call.opts,
                                 !.first_use = ~global_model.is_some])
  /\ UNCHANGED <<fs_model_exists, callers, pool, calls, global_model, mutex_holder,
                 mutex_poisoned, n_loads, tokVars, crfVars, normVars>>

\* ensure_model_loaded: WORD_TOKENIZE_MODEL.lock().unwrap(), then is_none().
\* unwrap panics on a poisoned mutex and the guard is dropped with the error.
EnsureLock(t) ==
  /\ th[t].pc = "ensure_lock"
  /\ CanLock(mutex_holder)
  /\ IF mutex_poisoned
       THEN /\ Set(t, [th[t] EXCEPT !.pc = "panicked"])
            /\ UNCHANGED mutex_holder
       ELSE /\ mutex_holder' = t
            /\ Set(t, [th[t] EXCEPT !.pc = IF global_model.is_some THEN "ensure_unlock"
                                            ELSE "ensure_load"])
  /\ UNCHANGED <<fs_model_exists, callers, pool, calls, global_model, mutex_poisoned, n_loads,
                 tokVars, crfVars, normVars>>

\* A variant that loads a model and does not store it.
EnsureLoad_ModelNotStored(t) ==
  /\ th[t].pc = "ensure_load"
  /\ n_loads' = n_loads + 1
  /\ Set(t, [th[t] EXCEPT !.pc = "ensure_unlock"])
  /\ UNCHANGED <<fs_model_exists, callers, pool, calls, global_model, mutex_holder, mutex_poisoned,
                 tokVars, crfVars, normVars>>

\* FastCRFSequenceTagger::new(), model.load(model_path), *global_model = Some(model)
EnsureLoad(t) ==
  /\ th[t].pc = "ensure_load"
  /\ LET r == load(CRFModel_new, PathExists(ModelPathOf(th[t].self)))
     IN global_model' = [is_some |-> TRUE, model |-> r.model, id |-> n_loads + 1]
  /\ n_loads' = n_loads + 1
  /\ Set(t, [th[t] EXCEPT !.pc = "ensure_unlock"])
  /\ UNCHANGED <<fs_model_exists, callers, pool, calls, mutex_holder, mutex_poisoned,
                 tokVars, crfVars, normVars>>

\* A variant in which ensure_model_loaded returns with the guard kept.
EnsureUnlock_GuardKept(t) ==
  /\ th[t].pc = "ensure_unlock"
  /\ Set(t, [th[t] EXCEPT !.pc = "tokenize"])
  /\ UNCHANGED <<fs_model_exists, callers, pool, calls, global_model, mutex_holder, mutex_poisoned,
                 n_loads, tokVars, crfVars, normVars>>

\* ensure_model_loaded returns: the guard is dropped
EnsureUnlock(t) ==
  /\ th[t].pc = "ensure_unlock"
  /\ mutex_holder' = 0
  /\ Set(t, [th[t] EXCEPT !.pc = "tokenize"])
  /\ UNCHANGED <<fs_model_exists, callers, pool, calls, global_model, mutex_poisoned, n_loads,
                 tokVars, crfVars, normVars>>

\* the tokenizer is chosen and tokenizes the sentence
Tokenize(t) ==
  /\ th[t].pc = "tokenize"
  /\ LET o == th[t].opts
         tokenizer == SelectTokenizer(th[t].self, o.use_token_normalize, o.fixed_words)
     IN Set(t, [th[t] EXCEPT
                  !.toks = tokenize_with_tags(build_regex_patterns(tokenizer.fixed_words),
                                              tokenizer.use_character_normalize,
                                              tokenizer.use_token_normalize,
                                              th[t].sentence),
                  !.pc = "predict_lock"])
  /\ UNCHANGED <<fs_model_exists, callers, pool, calls, global_model, mutex_holder,
                 mutex_poisoned, n_loads, tokVars, crfVars, normVars>>

\* the second WORD_TOKENIZE_MODEL.lock().unwrap()
PredictLock(t) ==
  /\ th[t].pc = "predict_lock"
  /\ CanLock(mutex_holder)
  /\ IF mutex_poisoned
       THEN /\ Set(t, [th[t] EXCEPT !.pc = "panicked"])
            /\ UNCHANGED mutex_holder
       ELSE /\ mutex_holder' = t
            /\ Set(t, [th[t] EXCEPT !.pc = "predict"])
  /\ UNCHANGED <<fs_model_exists, callers, pool, calls, global_model, mutex_poisoned, n_loads,
                 tokVars, crfVars, normVars>>

\* the tags: model.predict(&features), or all B-W when there is no model.
\* A panic of predict unwinds through the guard, which poisons the mutex.
Predict(t) ==
  /\ th[t].pc = "predict"
  /\ LET tokens == TokenTexts(th[t].toks)
         r == predict(global_model.model, PrepareFeatures(tokens))
     IN IF ~global_model.is_some
          THEN /\ Set(t, [th[t] EXCEPT !.tags = [j \in 1..Len(tokens) |-> BW],
                                       !.fallback = TRUE, !.pc = "combine"])
               /\ UNCHANGED <<mutex_holder, mutex_poisoned>>
          ELSE IF r.panicked
          THEN /\ Set(t, [th[t] EXCEPT !.pc = "panicked"])
               /\ mutex_holder' = 0
               /\ mutex_poisoned' = TRUE
          ELSE /\ Set(t, [th[t] EXCEPT !.tags = r.tags, !.used = global_model.id,
                                       !.pc = "combine"])
               /\ UNCHANGED <<mutex_holder, mutex_poisoned>>
  /\ UNCHANGED <<fs_model_exists, callers, pool, calls, global_model, n_loads, tokVars, crfVars, normVars>>

\* the merge loop
CombineWords(t) ==
  /\ th[t].pc = "combine"
  /\ Set(t, [th[t] EXCEPT !.output = Combine(th[t].tags, TokenTexts(th[t].toks)),
                          !.pc = "return"])
  /\ UNCHANGED <<fs_model_exists, callers, pool, calls, global_model, mutex_holder,
                 mutex_poisoned, n_loads, tokVars, crfVars, normVars>>

\* word_tokenize_with_options returns (the guard is dropped) and the caller
\* gets the words, or their text form
Return(t) ==
  /\ th[t].pc = "return"
  /\ LET o == th[t].opts
         words == IF o.format_as_text THEN <<FormatAsText(th[t].output)>>
                  ELSE th[t].output
     IN Set(t, [th[t] EXCEPT !.ret = IF th[t].op = "word_tokenize_as_text"
                                       THEN FormatAsText(words) ELSE words,
                             !.pc = "returned"])
  /\ mutex_holder' = 0
  /\ UNCHANGED <<fs_model_exists, callers, pool, calls, global_model, mutex_poisoned, n_loads,
                 tokVars, crfVars, normVars>>

\* what word_tokenize_with_options returns while WORD_TOKENIZE_MODEL is as it
\* is now: the steps of Tokenize, Predict, CombineWords and Return in one
word_tokenize_with_options(self, sentence, format_as_text, use_token_normalize, fixed_words) ==
  LET tokenizer == SelectTokenizer(self, use_token_normalize, fixed_words)
      tokens == tokenize(build_regex_patterns(tokenizer.fixed_words),
                         tokenizer.use_character_normalize,
                         tokenizer.use_token_normalize, sentence)
      tags == IF global_model.is_some
                THEN predict(global_model.model, PrepareFeatures(tokens)).tags
                ELSE [j \in 1..Len(tokens) |-> BW]
      output == Combine(tags, tokens)
  IN IF format_as_text THEN <<FormatAsText(output)>> ELSE output

Step(t) ==
  \/ Call(t)
  \/ EnsureLock(t)
  \/ EnsureLoad(t)
  \/ EnsureUnlock(t)
  \/ Tokenize(t)
  \/ PredictLock(t)
  \/ Predict(t)
  \/ CombineWords(t)
  \/ Return(t)

Next == \E t \in Threads : Step(t)

Spec == Init /\ [][Next]_vars

SeqSpec == SeqInit /\ [][Next]_vars

\* the steps of a call that hold the mutex or drop it and wait for nothing
GuardStep(t) == EnsureLoad(t) \/ EnsureUnlock(t) \/ CombineWords(t) \/ Return(t)

\* Spec under fair scheduling. A thread that can take a step that waits for
\* nothing takes one: WF for the steps of GuardStep, and for Tokenize and
\* Predict, each of which is enabled exactly at its position and leaves it,
\* the same condition in the form that a thread is not at such a position for
\* ever. A thread waiting for the mutex gets it if the mutex is free again and
\* again (SF). Nothing makes a thread call again.
FairSpec ==
  /\ Spec
  /\ \A t \in Threads :
       /\ WF_vars(GuardStep(t))
       /\ []<>(th[t].pc \notin {"tokenize", "predict"})
       /\ SF_vars(EnsureLock(t))
       /\ SF_vars(PredictLock(t))

\* FairSpec with weak fairness only for the two locks
WeakFairSpec ==
  /\ Spec
  /\ \A t \in Threads :
       /\ WF_vars(GuardStep(t))
       /\ []<>(th[t].pc \notin {"tokenize", "predict"})
       /\ WF_vars(EnsureLock(t))
       /\ WF_vars(PredictLock(t))

(***************************************************************************)
(* Properties of the tokenizer                                             *)
(***************************************************************************)

StripSpace(text) == SelectSeq(text, LAMBDA c : c \notin Space)

RECURSIVE Flatten(_)
Flatten(seqs) == IF seqs = <<>> THEN <<>> ELSE Head(seqs) \o Flatten(Tail(seqs))

\* the categories in their priority order, highest first
CategoryOrder ==
  << "Special", "Abbreviation", "Url", "Email", "Phone", "DateTime", "Name",
     "Number", "Emoji", "Punct", "WordHyphen", "Word", "Symbol", "NonWord" >>

SubPattern(category) ==
  CASE category = "Special" -> specials_pattern
    [] category = "Abbreviation" -> abbreviations_pattern
    [] category = "Url" -> url_pattern
    [] category = "Email" -> email_pattern
    [] category = "Phone" -> phone_pattern
    [] category = "DateTime" -> datetime_pattern
    [] category = "Name" -> name_pattern
    [] category = "Number" -> number_pattern
    [] category = "Emoji" -> emoji_pattern
    [] category = "Punct" -> punct_pattern
    [] category = "WordHyphen" -> word_hyphen_pattern
    [] category = "Word" -> word_pattern
    [] category = "Symbol" -> symbol_pattern
    [] category = "NonWord" -> non_word_pattern

CategoryIndex(category) == CHOOSE j \in 1..Len(CategoryOrder) : CategoryOrder[j] = category

MatchesAt(category, text, s) == Ends(SubPattern(category), text, s) # <<>>

\* where the scan stood before the last token was taken
PrevEnd == IF Len(tk_caps) > 1 THEN tk_caps[Len(tk_caps) - 1].end ELSE 1

\* C1: without fixed words the tokens of a finished call are non-empty spans
\* in left-to-right order that do not overlap, and their texts concatenated
\* are the normalized text with its whitespace removed.
C1_ExactCover ==
  (tk_pc = "done" /\ tk_fixed = <<>>) =>
    /\ \A j \in 1..Len(tk_caps) :
         /\ tk_caps[j].start < tk_caps[j].end
         /\ j > 1 => tk_caps[j - 1].end <= tk_caps[j].start
    /\ Flatten(TokenTexts(tk_tokens)) = StripSpace(normalize_characters_in_text(tk_text))

\* C2: without fixed words, the token taken at an offset has the first
\* category of the priority order whose sub-pattern matches at that offset
\* and ends where that sub-pattern prefers; no category matches at an offset
\* the scan stepped over; and the scan resumes at the end of the token.
C2_FirstCategoryWins ==
  (tk_fixed = <<>> /\ tk_pc # "body" /\ tk_caps # <<>>) =>
    LET c == tk_caps[Len(tk_caps)]
        category == tk_tokens[Len(tk_caps)].token_type
    IN /\ MatchesAt(category, tk_text, c.start)
       /\ c.end = Head(Ends(SubPattern(category), tk_text, c.start))
       /\ \A j \in 1..(CategoryIndex(category) - 1) :
            ~MatchesAt(CategoryOrder[j], tk_text, c.start)
       /\ \A p \in PrevEnd..(c.start - 1) :
            \A j \in 1..Len(CategoryOrder) : ~MatchesAt(CategoryOrder[j], tk_text, p)
       /\ tk_start = c.end

\* a token was taken where a category of lower priority matches a longer span
C2_Witness ==
  /\ tk_fixed = <<>> /\ tk_pc # "body" /\ tk_caps # <<>>
  /\ LET c == tk_caps[Len(tk_caps)]
         category == tk_tokens[Len(tk_caps)].token_type
     IN \E j \in (CategoryIndex(category) + 1)..Len(CategoryOrder) :
          LET ends == Ends(SubPattern(CategoryOrder[j]), tk_text, c.start)
          IN ends # <<>> /\ Head(ends) > c.end

OccursAt(word, text, s) ==
  /\ s + Len(word) - 1 <= Len(text)
  /\ SubSeq(text, s, s + Len(word) - 1) = word

IsBoundary(text, i) == IsWordAt(text, i - 1) # IsWordAt(text, i)

\* C3: with fixed words, a fixed word that occurs at the offset a token is
\* taken at, between two word boundaries, is that token, of category
\* FixedWords.
C3_FixedPhraseOneToken ==
  (tk_fixed # <<>> /\ tk_pc # "body" /\ tk_caps # <<>>) =>
    LET c == tk_caps[Len(tk_caps)]
    IN \A j \in 1..Len(tk_fixed) :
         ( /\ tk_fixed[j] # <<>>
           /\ OccursAt(tk_fixed[j], tk_text, c.start)
           /\ IsBoundary(tk_text, c.start)
           /\ IsBoundary(tk_text, c.start + Len(tk_fixed[j])) )
         => /\ tk_tokens[Len(tk_caps)] = [text |-> tk_fixed[j], token_type |-> "FixedWords"]
            /\ c.end = c.start + Len(tk_fixed[j])

\* C8: a fixed word matches its own text only, and an empty one matches
\* nothing: every FixedWords token is one of the fixed words, and not empty.
C8_FixedPhraseLiteral ==
  \A k \in 1..Len(tk_tokens) :
    tk_tokens[k].token_type = "FixedWords" =>
      /\ tk_tokens[k].text # <<>>
      /\ \E j \in 1..Len(tk_fixed) : tk_tokens[k].text = tk_fixed[j]

\* C18: without fixed words no character of a token is whitespace.
C18_NoWhitespaceInTokens ==
  tk_fixed = <<>> =>
    \A k \in 1..Len(tk_tokens) :
      \A j \in 1..Len(tk_tokens[k].text) : tk_tokens[k].text[j] \notin Space

(***************************************************************************)
(* Properties of the tagger and of the merge loop                          *)
(***************************************************************************)

LabelSeqs(n) == [1..n -> {BW, IW}]

\* C4: for a loaded model and a non-empty token sequence, predict returns one
\* label per token, and no sequence over {B-W, I-W} of that length has a
\* greater score_sequence than the one it returns.
C4_ViterbiOptimal ==
  (crf_pc = "predicted" /\ crf_tokens # <<>>) =>
    /\ crf_model.loaded
    /\ crf_out.tags \in LabelSeqs(Len(crf_tokens))
    /\ \A tags \in LabelSeqs(Len(crf_tokens)) :
         score_sequence(crf_model, crf_tokens, tags)
           <= score_sequence(crf_model, crf_tokens, crf_out.tags)

\* predict has decoded a longest sequence, for which the best labels are not
\* all the same and some other labelling scores less
C4_Witness ==
  /\ crf_pc = "predicted"
  /\ Len(crf_tokens) = MaxTokens
  /\ \E i, j \in 1..MaxTokens : crf_out.tags[i] = BW /\ crf_out.tags[j] = IW
  /\ \E tags \in LabelSeqs(MaxTokens) :
       score_sequence(crf_model, crf_tokens, tags)
         < score_sequence(crf_model, crf_tokens, crf_out.tags)

\* the positions of the tokens that start a word: the first, and every later
\* one labelled B-W
WordStarts(tags) == {j \in 1..Len(tags) : j = 1 \/ tags[j] = BW}

\* the k-th smallest element of a set of numbers
RECURSIVE Kth(_, _)
Kth(S, k) ==
  LET m == CHOOSE x \in S : \A y \in S : x <= y
  IN IF k = 1 THEN m ELSE Kth(S \ {m}, k - 1)

\* C5: the merge loop gives one word per start position, in order; a word is
\* the tokens from its start up to the next start, joined by single spaces.
C5_MergeByLabels ==
  mg_done =>
    LET n == Len(crf_tokens)
        starts == WordStarts(mg_tags)
        startOf(k) == Kth(starts, k)
        endOf(k) == IF k = Cardinality(starts) THEN n ELSE Kth(starts, k + 1) - 1
    IN /\ Len(mg_output) = Cardinality(starts)
       /\ \A k \in 1..Len(mg_output) :
            mg_output[k] = JoinSpace(SubSeq(crf_tokens, startOf(k), endOf(k)))

\* the loop has merged a longest sequence whose first label is I-W and whose
\* later labels are one I-W and one B-W
C5_Witness ==
  /\ mg_done
  /\ Len(crf_tokens) = MaxTokens
  /\ mg_tags[1] = IW
  /\ \E i, j \in 2..MaxTokens : mg_tags[i] = IW /\ mg_tags[j] = BW
  /\ Len(mg_output) = 2

\* C10: load returns Ok whether the path exists or not, leaves exactly the
\* dummy weights in the model and sets loaded; a predict that follows does not
\* panic and gives one label per token.
C10_LoadNeverFails ==
  crf_load.called =>
    /\ crf_load.result = "Ok"
    /\ crf_model.loaded
    /\ Len(crf_model.weights) = Len(DummyWeights)
    /\ \A j \in 1..Len(DummyWeights) :
         WeightOr0(crf_model, DummyWeights[j][1]) = DummyWeights[j][2]
    /\ crf_pc # "panicked"
    /\ crf_pc = "predicted" =>
         /\ ~crf_out.panicked
         /\ Len(crf_out.tags) = Len(crf_tokens)

\* load was called with a path that does not exist, and predict followed on a
\* non-empty sequence
C10_Witness ==
  /\ crf_load.called
  /\ ~crf_load.path_exists
  /\ crf_pc = "predicted"
  /\ crf_tokens # <<>>
  /\ crf_out.tags # <<>>

\* C11: a predict on a model that load has not been called on panics and
\* gives no labels, whatever the tokens are, the empty sequence included.
C11_PredictBeforeLoadIsFatal ==
  (crf_pc \in {"predicted", "panicked"} /\ ~crf_load.called) =>
    /\ ~crf_model.loaded
    /\ crf_pc = "panicked"
    /\ crf_out.panicked
    /\ crf_out.tags = <<>>

\* predict was called before load on the empty sequence
C11_Witness ==
  /\ crf_pc = "panicked"
  /\ ~crf_load.called
  /\ crf_tokens = <<>>

\* the number of B-W labels of a tag sequence
CountBW(tags) == Cardinality({j \in 1..Len(tags) : tags[j] = BW})

\* C12: the merge loop gives as many words as there are B-W labels, and one
\* more when the first label is I-W.
C12_WordCount ==
  mg_done =>
    Len(mg_output) = CountBW(mg_tags)
                     + (IF mg_tags # <<>> /\ mg_tags[1] = IW THEN 1 ELSE 0)

\* a longest sequence whose first label is I-W and that has a B-W label was
\* merged into one word more than it has B-W labels
C12_Witness ==
  /\ mg_done
  /\ Len(mg_tags) = MaxTokens
  /\ mg_tags[1] = IW
  /\ CountBW(mg_tags) >= 1
  /\ Len(mg_output) = CountBW(mg_tags) + 1

\* C19: for a loaded model predict gives one label per token, each B-W or
\* I-W; for no tokens it gives no labels.
C19_OneLabelPerToken ==
  crf_pc = "predicted" =>
    /\ crf_model.loaded
    /\ Len(crf_out.tags) = Len(crf_tokens)
    /\ \A j \in 1..Len(crf_out.tags) : crf_out.tags[j] \in {BW, IW}
    /\ crf_tokens = <<>> => crf_out.tags = <<>>

\* a loaded model was given no tokens and returned no labels
C19_Witness ==
  /\ crf_pc = "predicted"
  /\ crf_load.called
  /\ crf_tokens = <<>>
  /\ crf_out.tags = <<>>

\* total_score of dp[i][j] for the previous label k
TotalScore(model, tokens, i, j, k) ==
  Plus64(ViterbiForward(model, tokens, i - 1)[i - 1].dp[k],
         WeightOr0(model, Key(model.labels[k], model.labels[j]))
           + EmissionScore(model, tokens, i, model.labels[j]))

\* both previous labels give dp[i][j] the same score
BackpointerTie(model, tokens, i, j) ==
  TotalScore(model, tokens, i, j, 1) = TotalScore(model, tokens, i, j, 2)

\* the two final scores are equal
FinalTie(model, tokens) ==
  LET last_dp == ViterbiForward(model, tokens, Len(tokens))[Len(tokens)].dp
  IN last_dp[1] = last_dp[2]

\* C21: where both previous labels give dp[i][j] the same score the
\* backpointer of dp[i][j] is the first label, so a decoded label whose cell is
\* tied is preceded by B-W; where the two final scores are equal the last
\* decoded label is B-W.
C21_TiesGoToFirstLabel ==
  (crf_pc \in {"predicted", "decoded"} /\ crf_tokens # <<>>) =>
    LET n == Len(crf_tokens)
        rows == ViterbiForward(crf_model, crf_tokens, n)
    IN /\ Len(crf_out.tags) = n
       /\ \A i \in 2..n : \A j \in 1..2 :
            BackpointerTie(crf_model, crf_tokens, i, j) =>
              /\ rows[i].backtrack[j] = 1
              /\ crf_out.tags[i] = crf_model.labels[j] => crf_out.tags[i - 1] = BW
       /\ FinalTie(crf_model, crf_tokens) => crf_out.tags[n] = BW

\* a longest sequence was decoded in which the cell of a decoded label is
\* tied and the final scores are tied
C21_Witness ==
  /\ crf_pc = "decoded"
  /\ Len(crf_tokens) = MaxTokens
  /\ FinalTie(crf_model, crf_tokens)
  /\ \E i \in 2..MaxTokens : \E j \in 1..2 :
       /\ BackpointerTie(crf_model, crf_tokens, i, j)
       /\ crf_out.tags[i] = crf_model.labels[j]
       /\ crf_out.tags[i - 1] = BW

\* a loaded model was given one token without a weight: the final scores are
\* tied and the label is B-W
FinalTieAfterLoad ==
  /\ crf_pc = "predicted"
  /\ Len(crf_tokens) = 1
  /\ FinalTie(crf_model, crf_tokens)
  /\ crf_out.tags = <<BW>>

\* with the weights of load no cell of the table is tied
NoBackpointerTieAfterLoad ==
  crf_model.loaded =>
    \A i \in 2..Len(crf_tokens) : \A j \in 1..2 : ~BackpointerTie(crf_model, crf_tokens, i, j)

\* the features as a set
FeatureSet == {crf_features[j] : j \in 1..Len(crf_features)}

TokenFeature(token) == <<"t", "o", "k", "e", "n", "=">> \o token
PrevTokenFeature(token) == <<"p", "r", "e", "v", "_", "t", "o", "k", "e", "n", "=">> \o token
NextTokenFeature(token) == <<"n", "e", "x", "t", "_", "t", "o", "k", "e", "n", "=">> \o token

\* C22: the features of a position hold token=<token>; prev_token=<BOS> exactly
\* at the first position and prev_token=<previous token> elsewhere;
\* next_token=<EOS> exactly at the last position and next_token=<next token>
\* elsewhere.
C22_ContextFeatures ==
  crf_position > 0 =>
    LET i == crf_position
        n == Len(crf_tokens)
    IN /\ TokenFeature(crf_tokens[i]) \in FeatureSet
       /\ PrevTokenFeature(<<"<", "B", "O", "S", ">">>) \in FeatureSet <=> i = 1
       /\ i > 1 => PrevTokenFeature(crf_tokens[i - 1]) \in FeatureSet
       /\ NextTokenFeature(<<"<", "E", "O", "S", ">">>) \in FeatureSet <=> i = n
       /\ i < n => NextTokenFeature(crf_tokens[i + 1]) \in FeatureSet

\* What holds instead: the same, for tokens none of which is the text <BOS>
\* or <EOS>; and for all tokens, with "when" in the place of "exactly when".
ContextFeaturesOfPlainTokens ==
  crf_position > 0 =>
    LET i == crf_position
        n == Len(crf_tokens)
        plain == \A j \in 1..n : crf_tokens[j] \notin {<<"<", "B", "O", "S", ">">>, <<"<", "E", "O", "S", ">">>}
    IN /\ TokenFeature(crf_tokens[i]) \in FeatureSet
       /\ i = 1 => PrevTokenFeature(<<"<", "B", "O", "S", ">">>) \in FeatureSet
       /\ i > 1 => PrevTokenFeature(crf_tokens[i - 1]) \in FeatureSet
       /\ i = n => NextTokenFeature(<<"<", "E", "O", "S", ">">>) \in FeatureSet
       /\ i < n => NextTokenFeature(crf_tokens[i + 1]) \in FeatureSet
       /\ plain => (PrevTokenFeature(<<"<", "B", "O", "S", ">">>) \in FeatureSet <=> i = 1)
       /\ plain => (NextTokenFeature(<<"<", "E", "O", "S", ">">>) \in FeatureSet <=> i = n)

(***************************************************************************)
(* Properties of the word segmenter                                        *)
(***************************************************************************)

\* the positions of a call at which ensure_model_loaded has returned
AfterEnsure == {"tokenize", "predict_lock", "predict", "combine", "return", "returned"}

\* the positions at which the sentence has been tokenized
AfterTokenize == {"predict_lock", "predict", "combine", "return", "returned"}

\* C6: in every interleaving at most one model is constructed and loaded;
\* once a call is past ensure_model_loaded exactly one has been, it is the one
\* in WORD_TOKENIZE_MODEL, and it is the one every predict uses.
C6_LoadedExactlyOnce ==
  /\ n_loads <= 1
  /\ global_model.is_some <=> n_loads = 1
  /\ \A t \in Threads :
       /\ th[t].pc \in AfterEnsure => (global_model.is_some /\ global_model.id = 1)
       /\ th[t].pc \in {"combine", "return", "returned"} =>
            (th[t].used = 1 /\ ~th[t].fallback)

\* two threads that both entered before any model was loaded, on different
\* segmenters, have both returned
C6_Witness ==
  /\ \A t \in Threads : th[t].pc = "returned" /\ th[t].first_use /\ th[t].used = 1
  /\ \E t, u \in Threads : th[t].self # th[u].self
  /\ n_loads = 1

\* C7: the tokens of a call on a segmenter built with fixed words are the
\* tokens of the tokenizer built with those fixed words.
C7_ConstructorPhrasesApplied ==
  \A t \in Threads :
    (th[t].pc \in AfterTokenize /\ th[t].self.tokenizer.fixed_words # <<>>) =>
      th[t].toks = tokenize_with_tags(build_regex_patterns(th[t].self.tokenizer.fixed_words),
                                      TRUE, TRUE, th[t].sentence)

\* C9: no call panics; and a word_tokenize call whose model path does not
\* exist, on a sentence with a character that is not whitespace, returns at
\* least one word, tagged by a loaded model that holds the dummy weights.
C9_MissingModelStillSegments ==
  \A t \in Threads :
    /\ th[t].pc # "panicked"
    /\ ( /\ th[t].pc = "returned"
         /\ th[t].op = "word_tokenize"
         /\ ~PathExists(ModelPathOf(th[t].self))
         /\ StripSpace(th[t].sentence) # <<>> )
       => /\ th[t].ret # <<>>
          /\ ~th[t].fallback
          /\ global_model.model.loaded
          /\ \A j \in 1..Len(DummyWeights) :
               WeightOr0(global_model.model, DummyWeights[j][1]) = DummyWeights[j][2]

\* a first word_tokenize call, made with no model at the path, has returned
\* the words of a sentence of several tokens
C9_Witness ==
  \E t \in Threads :
    /\ th[t].pc = "returned"
    /\ th[t].op = "word_tokenize"
    /\ th[t].first_use
    /\ ~PathExists(ModelPathOf(th[t].self))
    /\ Len(th[t].toks) > 1
    /\ th[t].ret # <<>>

\* the texts of the tokens as they are classified, before any rewriting
ClassifiedTexts(t) ==
  LET tokenizer == SelectTokenizer(th[t].self, FALSE, th[t].opts.fixed_words)
  IN tokenize(build_regex_patterns(tokenizer.fixed_words),
              tokenizer.use_character_normalize, FALSE, th[t].sentence)

\* C13: the token texts a call tags and merges are the classified texts, each
\* rewritten by token_normalize of text_normalize when use_token_normalize is
\* true, and unchanged when it is false.
C13_TokensCanonicalized ==
  \A t \in Threads :
    th[t].pc \in AfterTokenize =>
      LET classified == ClassifiedTexts(t)
      IN TokenTexts(th[t].toks) =
           IF th[t].opts.use_token_normalize
             THEN [j \in 1..Len(classified) |->
                     text_normalize_token_normalize(
                       rules, classified[j], th[t].self.tokenizer.use_character_normalize)]
             ELSE classified

\* C17: once the model is loaded a thread that is about to tag is not kept
\* waiting by a thread that is inside predict.
C17_TaggingNeedsNoLock ==
  \A t, u \in Threads :
    (t # u /\ global_model.is_some /\ th[t].pc = "predict_lock" /\ th[u].pc = "predict")
      => CanLock(mutex_holder)

\* What holds instead: a thread inside predict holds the mutex, so no two
\* threads are inside predict together.
PredictIsSerialized ==
  \A t, u \in Threads :
    (th[t].pc = "predict" /\ th[u].pc = "predict") => (t = u /\ mutex_holder = t)

RECURSIVE JoinUnderscore(_)
JoinUnderscore(tokens) ==
  IF tokens = <<>> THEN <<>>
  ELSE IF Len(tokens) = 1 THEN tokens[1]
  ELSE tokens[1] \o <<"_">> \o JoinUnderscore(Tail(tokens))

\* the positions of a call at which it holds the guard of the mutex
HoldsGuard == {"ensure_load", "ensure_unlock", "predict", "combine", "return"}

\* C23: predict is only invoked on a model that is in WORD_TOKENIZE_MODEL and
\* is loaded; no call panics and none takes the all-B-W branch; and once
\* WORD_TOKENIZE_MODEL holds a model it holds that model for ever.
C23_PredictOnlyOnLoadedModel ==
  /\ [](\A t \in Threads :
          /\ th[t].pc = "predict" => (global_model.is_some /\ global_model.model.loaded)
          /\ th[t].pc # "panicked"
          /\ ~th[t].fallback
          /\ th[t].pc \in {"combine", "return", "returned"} =>
               Len(th[t].tags) = Len(th[t].toks))
  /\ [][global_model.is_some => global_model' = global_model]_vars
  /\ []~mutex_poisoned

\* a thread is about to predict on the model that another thread, on another
\* segmenter, loaded and has returned from; the first has been through a call
\* before
C23_Witness ==
  \E t, u \in Threads :
    /\ th[t].pc = "predict"
    /\ ~th[t].first_use
    /\ th[u].pc = "returned"
    /\ th[u].first_use
    /\ th[t].self # th[u].self
    /\ global_model.is_some
    /\ global_model.model.loaded

ReturnsWhenCallsEnd ==
  (\A u \in Threads : <>[][~Call(u)]_vars) =>
    (\A t \in Threads : (th[t].pc = "ensure_lock") ~> (th[t].pc = "returned"))

UnderscoredWords(t) ==
  LET tokens == TokenTexts(th[t].toks)
      starts == WordStarts(th[t].tags)
      startOf(k) == Kth(starts, k)
      endOf(k) == IF k = Cardinality(starts) THEN Len(tokens) ELSE Kth(starts, k + 1) - 1
  IN [k \in 1..Cardinality(starts) |-> JoinUnderscore(SubSeq(tokens, startOf(k), endOf(k)))]

\* word_tokenize_as_text returns the one string that
\* word_tokenize_with_options gives with format_as_text
AsTextIsFormattedOptions ==
  \A t \in Threads :
    (th[t].pc = "returned" /\ th[t].op = "word_tokenize_as_text") =>
      <<th[t].ret>> = word_tokenize_with_options(th[t].self, th[t].sentence, TRUE, TRUE, <<>>)

\* C20: word_tokenize_as_text returns the one string that
\* word_tokenize_with_options gives with format_as_text, and that string is
\* the words of word_tokenize, each with its tokens joined by "_", joined by
\* single spaces.
C20_AsTextJoinsTokens ==
  \A t \in Threads :
    (th[t].pc = "returned" /\ th[t].op = "word_tokenize_as_text") =>
      /\ <<th[t].ret>> = word_tokenize_with_options(th[t].self, th[t].sentence, TRUE, TRUE, <<>>)
      /\ th[t].output = word_tokenize_with_options(th[t].self, th[t].sentence, FALSE, TRUE, <<>>)
      /\ th[t].ret = JoinSpace(UnderscoredWords(t))

(***************************************************************************)
(* Properties of text_normalize                                            *)
(***************************************************************************)

\* what a token of at most the cutoff is to become: its text, normalized when
\* asked, looked up in the token map
Canonical(token, use_character_normalize) ==
  LET text == IF use_character_normalize
                THEN text_normalize_normalize_characters_in_text(rules, token)
                ELSE token
      mapped == MapGet(rules.token_map, text)
  IN IF mapped.found THEN mapped.value ELSE text

\* C14: token_normalize of a token of at most 6 characters is the mapped
\* value of its (possibly normalized) text, or that text when it is no key.
C14_ShortTokenLookedUp ==
  ("token" \in nm_done /\ Len(nm_input) <= TokenLengthCutoff) =>
    nm_token = Canonical(nm_input, nm_ucn)

\* C15: token_normalize of a token of more than 6 characters is the token.
C15_LongTokenUnchanged ==
  ("token" \in nm_done /\ Len(nm_input) > TokenLengthCutoff) =>
    nm_token = nm_input

\* a token of 7 characters that is a key of the token map, and that the
\* character map would rewrite, was returned as it is
C15_Witness ==
  /\ "token" \in nm_done
  /\ Len(nm_input) = TokenLengthCutoff + 1
  /\ nm_ucn
  /\ MapGet(rules.token_map, nm_input).found
  /\ text_normalize_normalize_characters_in_text(rules, nm_input) # nm_input
  /\ nm_token = nm_input

Keys(map) == {map[j][1] : j \in 1..Len(map)}

Chars(text) == {text[j] : j \in 1..Len(text)}

IsPrefix(p, text) == Len(p) <= Len(text) /\ SubSeq(text, 1, Len(p)) = p

Occurs(p, text) == \E i \in 1..(Len(text) - Len(p) + 1) : SubSeq(text, i, i + Len(p) - 1) = p

\* no two keys can match windows of a text that overlap: neither occurs in
\* the other, and no proper non-empty end of one is a start of the other
NonOverlappingKeys(map) ==
  \A k1, k2 \in Keys(map) :
    k1 # k2 =>
      /\ ~Occurs(k1, k2)
      /\ \A n \in 1..(Len(k1) - 1) : ~IsPrefix(SubSeq(k1, Len(k1) - n + 1, Len(k1)), k2)

\* the characters that take part in a composition
CompositionChars == {"a", "U+0300"}

\* every value is non-empty and made of characters that are in no key and
\* take part in no composition
InertValues(map) ==
  \A j \in 1..Len(map) :
    /\ map[j][2] # <<>>
    /\ \A k \in Keys(map) : Chars(map[j][2]) \cap Chars(k) = {}
    /\ Chars(map[j][2]) \cap CompositionChars = {}

\* C16 as stated: normalizing a normalized text changes nothing when the keys
\* of the character map have non-overlapping match windows.
C16_IdempotentNonOverlapping ==
  ("twice" \in nm_done /\ NonOverlappingKeys(rules.character_map)) =>
    nm_twice = nm_once

\* Normalizing a normalized text does change nothing under the maps whose
\* keys have non-overlapping match windows and whose values are non-empty,
\* share no character with a key and have no character that takes part in a
\* composition.
IdempotentInertValues ==
  ( /\ "twice" \in nm_done
    /\ NonOverlappingKeys(rules.character_map)
    /\ InertValues(rules.character_map) ) =>
    nm_twice = nm_once

====
